---- MODULE Spec2Model ----
(***************************************************************************)
(* A state-machine model of the core of the mail server:                   *)
(*   - the per-account change log (crates/jmap/src/changes/write.rs),      *)
(*   - the DSN generator of the outbound queue                             *)
(*     (crates/smtp/src/queue/dsn.rs),                                     *)
(*   - the mailbox membership of emails under concurrent requests          *)
(*     (tests/src/jmap/stress_test.rs),                                    *)
(*   - the ACL / access-token engine (crates/jmap/src/auth/account.rs,     *)
(*     tests/src/jmap/auth_acl.rs),                                        *)
(*   - Blob/get and Blob/lookup (crates/jmap/src/blob/get.rs).             *)
(* Each subsystem has its own specifications (SpecChanges, SpecDsn,        *)
(* SpecEmail, SpecAcl, ...); a specification leaves the variables of the   *)
(* other subsystems at their idle values.                                  *)
(***************************************************************************)
EXTENDS Integers, Sequences, FiniteSets, TLC

VARIABLES
    \* ---- change log
    counter,      \* store: last change id assigned, per account
    builders,     \* per task: the ChangeLogBuilder it holds (or NoBuilder)
    log,          \* store: per account, the change ids of the records written, in commit order
    returned,     \* per account, the state tokens returned to clients, in order
    chResult      \* per task: the result of its last begin_changes / commit_changes

VARIABLES
    \* ---- outbound queue / DSN
    message,      \* the Message of the current DeliveryAttempt
    queue,        \* the DSN messages handed to queue_message, in order
    now,          \* the clock (Instant::now()), in seconds
    dsnOut        \* what the last send_dsn call did (its return value and log)

VARIABLES
    \* ---- emails of one account under concurrent requests
    emDocs,       \* store: the document ids of the account's emails
    emProp,       \* store: per email, its MailboxIds property
    emTags,       \* store: per mailbox, the MailboxIds tag index (a set of email ids)
    emTask        \* per task: the request it is running

VARIABLES
    \* ---- ACL engine
    acl,          \* store: per mailbox and grantee, the rights its ACL grants
    members,      \* directory: the users that are members of the sales group
    tokens,       \* access_tokens cache: per principal, its AclToken (or NoToken)
    sessions,     \* sessions cache: the principals with a cached session
    acData,       \* store: the emails and mailboxes of the shared accounts
    revoked,      \* history: the <<mailbox, grantee>> whose rights a Mailbox/set removed
    lastReq       \* the last request served and its response

VARIABLES
    \* ---- blobs
    blobEmails,   \* store: the <<account, document>> of the emails that exist
    blobBytes,    \* store: the contents of the stored blob
    blobTemp,     \* store: the Temporary blobs created by Blob/upload
    blobOut       \* the last Blob/get or Blob/lookup request and its response

VARIABLES
    \* ---- OAuth device flow, one OAuthCode
    oauth_code,   \* the OAuthCode: its status and account_id words
    oaUser,       \* the user at the /auth/code form: position and principal
    oaPoll        \* per poller of /auth/token: position, the words it read, its response

VARIABLES
    \* ---- directory gateway
    authOut       \* the last directory read or authenticate call and its result

VARIABLES
    \* ---- the parts of a DSN
    dsnDoc,       \* the last part of a DSN rendered: its inputs and what was written
    queryOut,     \* the last call of the Sieve query plugin and what it returned
    bodyOut       \* the last body part converted or truncated and the result

chVars == <<counter, builders, log, returned, chResult>>
dsnVars == <<message, queue, now, dsnOut>>
emVars == <<emDocs, emProp, emTags, emTask>>
aclVars == <<acl, members, tokens, sessions, acData, revoked, lastReq>>
blobVars == <<blobEmails, blobBytes, blobTemp, blobOut>>
oauthVars == <<oauth_code, oaUser, oaPoll>>
authVars == <<authOut>>
docVars == <<dsnDoc, queryOut, bodyOut>>

vars == <<chVars, dsnVars, emVars, aclVars, blobVars, oauthVars, authVars, docVars>>

\* What the actions of one subsystem leave alone: the other subsystems.
ChFrame == UNCHANGED <<dsnVars, emVars, aclVars, blobVars, oauthVars, authVars, docVars>>
DsnFrame == UNCHANGED <<chVars, emVars, aclVars, blobVars, oauthVars, authVars, docVars>>
EmFrame == UNCHANGED <<chVars, dsnVars, aclVars, blobVars, oauthVars, authVars, docVars>>
AclFrame == UNCHANGED <<chVars, dsnVars, emVars, blobVars, oauthVars, authVars, docVars>>
BlobFrame == UNCHANGED <<chVars, dsnVars, emVars, aclVars, oauthVars, authVars, docVars>>
OAuthFrame == UNCHANGED <<chVars, dsnVars, emVars, aclVars, blobVars, authVars, docVars>>
AuthFrame == UNCHANGED <<chVars, dsnVars, emVars, blobVars, oauthVars, docVars>>
DocFrame ==
    UNCHANGED <<chVars, dsnVars, emVars, aclVars, blobVars, oauthVars, authVars, queryOut, bodyOut>>
QueryFrame ==
    UNCHANGED <<chVars, dsnVars, emVars, aclVars, blobVars, oauthVars, authVars, dsnDoc, bodyOut>>
BodyFrame ==
    UNCHANGED <<chVars, dsnVars, emVars, aclVars, blobVars, oauthVars, authVars, dsnDoc, queryOut>>

(***************************************************************************)
(* Change log                                                              *)
(***************************************************************************)

\* Concurrent request tasks and the largest change id the store hands out.
NumTasks == 2
MaxChangeId == 3

Tasks == 1..NumTasks
ChAccounts == {1, 2}

\* ChangeLogBuilder::new() carries change_id = u64::MAX (all bits set, the
\* two's-complement -1); TLC's integers are 32-bit, -1 stands for it.
U64_MAX == -1

NoBuilder == [account |-> 0, change_id |-> 0, pc |-> "none"]

ChOk(state) == [status |-> "ok", state |-> state]
ChErr == [status |-> "ServerPartialFail", state |-> 0]
ChNone == [status |-> "none", state |-> 0]

ChInit ==
    /\ counter = [a \in ChAccounts |-> 0]
    /\ builders = [t \in Tasks |-> NoBuilder]
    /\ log = [a \in ChAccounts |-> << >>]
    /\ returned = [a \in ChAccounts |-> << >>]
    /\ chResult = [t \in Tasks |-> ChNone]

ChIdle == ChInit

\* store.assign_change_id(account_id): the next id of the account's counter.
StoreAssignChangeId(a) == counter[a] + 1

\* ChangeLogBuilder::with_change_id(id) / ChangeLogBuilder::new()
WithChangeId(a, id) == [account |-> a, change_id |-> id, pc |-> "open"]
NewBuilder(a) == [account |-> a, change_id |-> U64_MAX, pc |-> "open"]

\* JMAP::begin_changes: assign_change_id(account_id).map(with_change_id)
BeginChanges(t, a) ==
    /\ builders[t].pc = "none"
    /\ counter[a] < MaxChangeId
    /\ counter' = [counter EXCEPT ![a] = StoreAssignChangeId(a)]
    /\ builders' = [builders EXCEPT ![t] = WithChangeId(a, StoreAssignChangeId(a))]
    /\ chResult' = [chResult EXCEPT ![t] = ChOk(StoreAssignChangeId(a))]
    /\ UNCHANGED <<log, returned>>
    /\ ChFrame

\* JMAP::begin_changes when the store fails: ServerPartialFail, no builder.
BeginChangesFail(t, a) ==
    /\ builders[t].pc = "none"
    /\ chResult' = [chResult EXCEPT ![t] = ChErr]
    /\ UNCHANGED <<counter, builders, log, returned>>
    /\ ChFrame

\* A handler that starts from ChangeLogBuilder::new() (placeholder id).
OpenChanges(t, a) ==
    /\ builders[t].pc = "none"
    /\ builders' = [builders EXCEPT ![t] = NewBuilder(a)]
    /\ chResult' = [chResult EXCEPT ![t] = ChNone]
    /\ UNCHANGED <<counter, log, returned>>
    /\ ChFrame

\* JMAP::commit_changes, first await: the builder carries the placeholder, so
\* an id is assigned now.
CommitAssign(t) ==
    /\ builders[t].pc = "open"
    /\ builders[t].change_id = U64_MAX
    /\ counter[builders[t].account] < MaxChangeId
    /\ LET a == builders[t].account IN
        /\ counter' = [counter EXCEPT ![a] = StoreAssignChangeId(a)]
        /\ builders' = [builders EXCEPT ![t] =
                [account |-> a, change_id |-> StoreAssignChangeId(a), pc |-> "committing"]]
    /\ UNCHANGED <<log, returned, chResult>>
    /\ ChFrame

\* JMAP::commit_changes, the id assignment fails: `?` returns ServerPartialFail.
CommitAssignFail(t) ==
    /\ builders[t].pc = "open"
    /\ builders[t].change_id = U64_MAX
    /\ builders' = [builders EXCEPT ![t] = NoBuilder]
    /\ chResult' = [chResult EXCEPT ![t] = ChErr]
    /\ UNCHANGED <<counter, log, returned>>
    /\ ChFrame

\* Every open builder goes to store.write as it is.
ReadyToWriteAsIs(t) == builders[t].pc \in {"committing", "open"}

\* The builder of task t is ready for store.write.
ReadyToWrite(t) ==
    \/ builders[t].pc = "committing"
    \/ builders[t].pc = "open" /\ builders[t].change_id # U64_MAX

\* JMAP::commit_changes: store.write succeeds, Ok(state) with state = change_id.
CommitWrite(t) ==
    /\ ReadyToWrite(t)
    /\ LET a == builders[t].account
           state == builders[t].change_id IN
        /\ log' = [log EXCEPT ![a] = Append(@, state)]
        /\ returned' = [returned EXCEPT ![a] = Append(@, state)]
        /\ chResult' = [chResult EXCEPT ![t] = ChOk(state)]
    /\ builders' = [builders EXCEPT ![t] = NoBuilder]
    /\ UNCHANGED counter
    /\ ChFrame

\* JMAP::commit_changes: store.write fails, ServerPartialFail, nothing written.
CommitWriteFail(t) ==
    /\ ReadyToWrite(t)
    /\ builders' = [builders EXCEPT ![t] = NoBuilder]
    /\ chResult' = [chResult EXCEPT ![t] = ChErr]
    /\ UNCHANGED <<counter, log, returned>>
    /\ ChFrame

ChNext ==
    \E t \in Tasks :
        \/ \E a \in ChAccounts : BeginChanges(t, a)
        \/ \E a \in ChAccounts : BeginChangesFail(t, a)
        \/ \E a \in ChAccounts : OpenChanges(t, a)
        \/ CommitAssign(t)
        \/ CommitAssignFail(t)
        \/ CommitWrite(t)
        \/ CommitWriteFail(t)

(***************************************************************************)
(* Outbound queue: DSN generation (crates/smtp/src/queue/dsn.rs)           *)
(***************************************************************************)

\* The clock runs from 0 to MaxTime; at most MaxQueue DSNs are queued.
MaxTime == 2
MaxQueue == 2

\* Recipient flags (a bit mask in the code, a set of flag names here).
RCPT_DSN_SENT == "DSN_SENT"
RCPT_STATUS_CHANGED == "STATUS_CHANGED"
RCPT_NOTIFY_SUCCESS == "NOTIFY_SUCCESS"
RCPT_NOTIFY_DELAY == "NOTIFY_DELAY"
RCPT_NOTIFY_FAILURE == "NOTIFY_FAILURE"
RCPT_NOTIFY_NEVER == "NOTIFY_NEVER"

\* config.notify evaluated for the envelope (durations in seconds) and the
\* lifetime of a message in the queue.
NotifySchedule == <<1, 1>>
ExpireAfter == 2
\* Duration::from_secs(10)
PastExpiry == 10

\* Recipient::has_flag: (self.flags & flag) != 0
has_flag(rcpt, flag) == rcpt.flags \cap flag # {}

Rcpt(address, domain_idx, flags) ==
    [address |-> address, domain_idx |-> domain_idx, flags |-> flags, status |-> "Scheduled"]

\* A domain as add_recipient_parts creates it at time t.
NewDomain(name, t) ==
    [domain |-> name, status |-> "Scheduled",
     notify |-> [inner |-> 0, due |-> t + NotifySchedule[1]],
     expires |-> t + ExpireAfter, changed |-> FALSE]

\* The notification requests a sender can attach to a recipient (RCPT TO NOTIFY=).
NotifyChoices ==
    { {},
      {RCPT_NOTIFY_SUCCESS, RCPT_NOTIFY_DELAY, RCPT_NOTIFY_FAILURE},
      {RCPT_NOTIFY_FAILURE},
      {RCPT_NOTIFY_NEVER, RCPT_NOTIFY_SUCCESS, RCPT_NOTIFY_DELAY, RCPT_NOTIFY_FAILURE} }

ReturnPaths == {"", "sender@a"}

\* The messages a delivery attempt can start with: two recipients, in one
\* domain or in two.
InitialMessages ==
    { [return_path |-> rp,
       recipients |-> << Rcpt("x@b", 1, f1), Rcpt("y@c", d2, f2) >>,
       domains |-> << NewDomain("b", 0), NewDomain("c", 0) >>]
      : rp \in ReturnPaths, f1 \in NotifyChoices, f2 \in NotifyChoices, d2 \in {1, 2} }

\* txt_success, txt_delay and txt_failed (one entry per recipient written)
\* and the per-recipient blocks of the machine-readable part.
NoText == [success |-> << >>, delay |-> << >>, failed |-> << >>]

NoDsnOut ==
    [op |-> "none", lines |-> << >>, bounced |-> {}, txt |-> NoText, dsn |-> << >>]

DsnInit ==
    /\ message \in InitialMessages
    /\ queue = << >>
    /\ now = 0
    /\ dsnOut = NoDsnOut

DsnIdle ==
    /\ message = [return_path |-> "", recipients |-> << >>, domains |-> << >>]
    /\ queue = << >>
    /\ now = 0
    /\ dsnOut = NoDsnOut

Line(cat, from) == [cat |-> cat, from |-> from]
NoLine == Line("none", "none")

\* build_dsn: `rcpt.flags |= RCPT_DSN_SENT | RCPT_STATUS_CHANGED`
MarkChangedOnly(rcpt) == rcpt.flags \cup {RCPT_STATUS_CHANGED}
KeepFlags(rcpt) == rcpt.flags
MarkSentIfNotified(rcpt) ==
    IF has_flag(rcpt, {RCPT_NOTIFY_SUCCESS, RCPT_NOTIFY_FAILURE})
    THEN rcpt.flags \cup {RCPT_DSN_SENT, RCPT_STATUS_CHANGED} ELSE rcpt.flags
MarkSent(rcpt) == rcpt.flags \cup {RCPT_DSN_SENT, RCPT_STATUS_CHANGED}

\* build_dsn: the match guard `domain.notify.due <= now`
DelayAlwaysDue(domain, t) == TRUE
DelayDue(domain, t) == domain.notify.due <= t

SkipRcptNeverOnly(rcpt) == has_flag(rcpt, {RCPT_NOTIFY_NEVER})
SkipRcptSentOnly(rcpt) == has_flag(rcpt, {RCPT_DSN_SENT})

\* build_dsn: `if rcpt.has_flag(RCPT_DSN_SENT | RCPT_NOTIFY_NEVER) { continue; }`
SkipRcpt(rcpt) == has_flag(rcpt, {RCPT_DSN_SENT, RCPT_NOTIFY_NEVER})

\* build_dsn: `match &rcpt.status`
NoOwnStatus(rcpt) == "Scheduled"
OwnStatus(rcpt) == rcpt.status

\* build_dsn, one iteration of the loop over the recipients: the recipient's
\* flags afterwards and the line (with its per-recipient block) it contributes.
RcptReport(rcpt, domain, t) ==
    IF SkipRcpt(rcpt)
    THEN [flags |-> rcpt.flags, line |-> NoLine]
    ELSE CASE OwnStatus(rcpt) = "Completed" ->
                [flags |-> MarkSent(rcpt),
                 line |-> IF has_flag(rcpt, {RCPT_NOTIFY_SUCCESS})
                          THEN Line("success", "rcpt") ELSE NoLine]
           [] OwnStatus(rcpt) = "TemporaryFailure" ->
                [flags |-> rcpt.flags,
                 line |-> IF DelayDue(domain, t) /\ has_flag(rcpt, {RCPT_NOTIFY_DELAY})
                          THEN Line("delay", "rcpt") ELSE NoLine]
           [] OwnStatus(rcpt) = "PermanentFailure" ->
                [flags |-> MarkSent(rcpt),
                 line |-> IF has_flag(rcpt, {RCPT_NOTIFY_FAILURE})
                          THEN Line("failure", "rcpt") ELSE NoLine]
           [] OTHER -> \* Status::Scheduled: use the domain's status
                CASE domain.status = "PermanentFailure" ->
                        [flags |-> MarkSent(rcpt),
                         line |-> IF has_flag(rcpt, {RCPT_NOTIFY_FAILURE})
                                  THEN Line("failure", "domain") ELSE NoLine]
                  [] domain.status \in {"TemporaryFailure", "Scheduled"} ->
                        [flags |-> rcpt.flags,
                         line |-> IF DelayDue(domain, t) /\ has_flag(rcpt, {RCPT_NOTIFY_DELAY})
                                  THEN Line("delay", "domain") ELSE NoLine]
                  [] OTHER -> \* Status::Completed: nothing is written for the
                              \* recipient, the block separator still is
                        [flags |-> rcpt.flags, line |-> Line("none", "domain")]

UpdateNotifyKeepInner(domain, t) ==
    IF domain.status \in {"TemporaryFailure", "Scheduled"} /\ domain.notify.due <= t
    THEN IF domain.notify.inner + 2 <= Len(NotifySchedule)
         THEN [domain EXCEPT !.notify.due = t + NotifySchedule[domain.notify.inner + 2],
                             !.changed = TRUE]
         ELSE [domain EXCEPT !.notify.due = domain.expires + PastExpiry,
                             !.changed = TRUE]
    ELSE domain

\* build_dsn, "Update next delay notification time", for one domain.
UpdateNotify(domain, t) ==
    IF domain.status \in {"TemporaryFailure", "Scheduled"} /\ domain.notify.due <= t
    THEN IF domain.notify.inner + 2 <= Len(NotifySchedule)
         THEN [domain EXCEPT !.notify = [inner |-> domain.notify.inner + 1,
                                         due |-> t + NotifySchedule[domain.notify.inner + 2]],
                             !.changed = TRUE]
         ELSE [domain EXCEPT !.notify.due = domain.expires + PastExpiry,
                             !.changed = TRUE]
    ELSE domain

\* response.write_dsn_text(&rcpt.address, &mut txt_...): the addresses written
\* to the text of one category, in the order of the recipients.
TextOf(msg, lines, cat) ==
    LET hit == SelectSeq([r \in DOMAIN lines |->
                             [address |-> msg.recipients[r].address, line |-> lines[r]]],
                         LAMBDA x : x.line.cat = cat)
    IN [i \in DOMAIN hit |-> hit[i].address]

\* rcpt.write_dsn, status.write_dsn and the closing "\r\n": the
\* per-recipient blocks, in the order of the recipients.
BlocksOf(msg, lines) ==
    LET hit == SelectSeq([r \in DOMAIN lines |->
                             [address |-> msg.recipients[r].address, line |-> lines[r]]],
                         LAMBDA x : x.line # NoLine)
    IN [i \in DOMAIN hit |->
           [address |-> IF hit[i].line.cat = "none" THEN "" ELSE hit[i].address,
            action |-> hit[i].line.cat,
            status |-> hit[i].line.from]]

\* DeliveryAttempt::build_dsn at time t: the message afterwards, the lines
\* written and whether a DSN is returned (Some) or not (None).
BuildDsn(msg, t) ==
    LET rep == [r \in DOMAIN msg.recipients |->
                    RcptReport(msg.recipients[r], msg.domains[msg.recipients[r].domain_idx], t)]
        lines == [r \in DOMAIN msg.recipients |-> rep[r].line]
        rcpts == [r \in DOMAIN msg.recipients |-> [msg.recipients[r] EXCEPT !.flags = rep[r].flags]]
        some == \E r \in DOMAIN lines : lines[r].cat # "none"
        has_delay == \E r \in DOMAIN lines : lines[r].cat = "delay"
        doms == IF has_delay
                THEN [d \in DOMAIN msg.domains |-> UpdateNotify(msg.domains[d], t)]
                ELSE msg.domains
    IN [message |-> [msg EXCEPT !.recipients = rcpts, !.domains = doms],
        lines |-> lines,
        txt |-> [success |-> TextOf(msg, lines, "success"),
                 delay |-> TextOf(msg, lines, "delay"),
                 failed |-> TextOf(msg, lines, "failure")],
        dsn |-> BlocksOf(msg, lines),
        some |-> some]

IsDoubleBounceOwnStatus(msg, r) ==
    /\ ~has_flag(msg.recipients[r], {RCPT_DSN_SENT, RCPT_NOTIFY_NEVER})
    /\ msg.recipients[r].status = "PermanentFailure"

\* The recipients handle_double_bounce reports: permanently failed, by their
\* own status or, when Scheduled, by their domain's.
IsDoubleBounce(msg, r) ==
    LET rcpt == msg.recipients[r] IN
    /\ ~has_flag(rcpt, {RCPT_DSN_SENT, RCPT_NOTIFY_NEVER})
    /\ \/ rcpt.status = "PermanentFailure"
       \/ rcpt.status = "Scheduled" /\ msg.domains[rcpt.domain_idx].status = "PermanentFailure"

\* DeliveryAttempt::handle_double_bounce at time t.
HandleDoubleBounce(msg, t) ==
    [msg EXCEPT
        !.recipients = [r \in DOMAIN msg.recipients |->
            IF IsDoubleBounce(msg, r)
            THEN [msg.recipients[r] EXCEPT !.flags = @ \cup {RCPT_DSN_SENT}]
            ELSE msg.recipients[r]],
        !.domains = [d \in DOMAIN msg.domains |->
            IF msg.domains[d].notify.due <= t
            THEN [msg.domains[d] EXCEPT !.notify.due = msg.domains[d].expires + PastExpiry]
            ELSE msg.domains[d]]]

NewDsnMessageFromSender(msg, t) ==
    [return_path |-> msg.return_path,
     recipients |-> << Rcpt(msg.return_path, 1, {}) >>,
     domains |-> << NewDomain("a", t) >>]

\* send_dsn: Message::new_boxed("", "", "") with the return path of the
\* reported message added as its recipient.
NewDsnMessage(msg, t) ==
    [return_path |-> "",
     recipients |-> << Rcpt(msg.return_path, 1, {}) >>,
     domains |-> << NewDomain("a", t) >>]

\* QueueCore::send_dsn
SendDsn ==
    /\ DsnFrame
    /\ IF message.return_path # ""
       THEN LET b == BuildDsn(message, now) IN
            /\ message' = b.message
            /\ IF b.some
               THEN /\ Len(queue) < MaxQueue
                    /\ queue' = Append(queue, NewDsnMessage(message, now))
                    /\ dsnOut' = [op |-> "dsn", lines |-> b.lines, bounced |-> {},
                                  txt |-> b.txt, dsn |-> b.dsn]
               ELSE /\ queue' = queue
                    /\ dsnOut' = [op |-> "no_dsn", lines |-> b.lines, bounced |-> {},
                                  txt |-> b.txt, dsn |-> b.dsn]
            /\ UNCHANGED now
       ELSE /\ message' = HandleDoubleBounce(message, now)
            /\ dsnOut' = [op |-> "double_bounce", lines |-> << >>,
                          bounced |-> {r \in DOMAIN message.recipients : IsDoubleBounce(message, r)},
                          txt |-> NoText, dsn |-> << >>]
            /\ UNCHANGED <<queue, now>>

Pending(status) == status \in {"Scheduled", "TemporaryFailure"}
Outcomes == {"Completed", "TemporaryFailure", "PermanentFailure"}

\* A delivery attempt records the response for one recipient.
RcptResult(r, s) ==
    /\ Pending(message.recipients[r].status)
    /\ Pending(message.domains[message.recipients[r].domain_idx].status)
    /\ message' = [message EXCEPT !.recipients[r].status = s]
    /\ dsnOut' = NoDsnOut
    /\ UNCHANGED <<queue, now>>
    /\ DsnFrame

\* A delivery attempt records the outcome for one domain.
DomainResult(d, s) ==
    /\ Pending(message.domains[d].status)
    /\ message' = [message EXCEPT !.domains[d].status = s]
    /\ dsnOut' = NoDsnOut
    /\ UNCHANGED <<queue, now>>
    /\ DsnFrame

\* Time passes.
Tick ==
    /\ now < MaxTime
    /\ now' = now + 1
    /\ dsnOut' = NoDsnOut
    /\ UNCHANGED <<message, queue>>
    /\ DsnFrame

\* The queue starts the delivery of the oldest queued DSN.
DeliverQueued ==
    /\ queue # << >>
    /\ message' = Head(queue)
    /\ queue' = Tail(queue)
    /\ dsnOut' = NoDsnOut
    /\ UNCHANGED now
    /\ DsnFrame

DsnNext ==
    \/ SendDsn
    \/ \E r \in DOMAIN message.recipients : \E s \in Outcomes : RcptResult(r, s)
    \/ \E d \in DOMAIN message.domains : \E s \in Outcomes : DomainResult(d, s)
    \/ Tick
    \/ DeliverQueued

(***************************************************************************)
(* Emails of one account under concurrent import / move / destroy          *)
(* (tests/src/jmap/stress_test.rs; the handlers write one atomic batch)    *)
(***************************************************************************)

\* The account holds at most MaxEmails emails at a time.
MaxEmails == 2

EmailIds == 1..MaxEmails
\* "Stress 1", "Stress 2", "Stress 3"
StressMailboxes == {"s1", "s2", "s3"}

EmIdleTask == [op |-> "none", pc |-> "idle", id |-> 0, seen |-> {}, target |-> "none"]

EmInit ==
    /\ emDocs = {}
    /\ emProp = [id \in EmailIds |-> {}]
    /\ emTags = [m \in StressMailboxes |-> {}]
    /\ emTask = [t \in Tasks |-> EmIdleTask]

EmIdle == EmInit

\* The store assigns the smallest free document id.
FreeId == CHOOSE id \in EmailIds \ emDocs : \A other \in EmailIds \ emDocs : id <= other

\* Email/import into one mailbox: one atomic batch creates the document, sets
\* its MailboxIds property and tags it.
EmailImport(t, m) ==
    /\ emTask[t].pc = "idle"
    /\ EmailIds \ emDocs # {}
    /\ emDocs' = emDocs \cup {FreeId}
    /\ emProp' = [emProp EXCEPT ![FreeId] = {m}]
    /\ emTags' = [emTags EXCEPT ![m] = @ \cup {FreeId}]
    /\ UNCHANGED emTask
    /\ EmFrame

\* Email/set update of email id with mailboxIds = [m] (the client picked id
\* and m from an earlier Email/query + Email/get), first await: the handler
\* reads the email's current MailboxIds; a missing email is notFound.
SetUpdateRead(t, id, m) ==
    /\ emTask[t].pc = "idle"
    /\ emTask' = [emTask EXCEPT ![t] =
            IF id \in emDocs
            THEN [op |-> "move", pc |-> "write", id |-> id, seen |-> emProp[id], target |-> m]
            ELSE EmIdleTask]
    /\ UNCHANGED <<emDocs, emProp, emTags>>
    /\ EmFrame

\* Email/set destroy of email id, first await: the handler reads the email's
\* current MailboxIds; a missing email is notFound.
SetDestroyRead(t, id) ==
    /\ emTask[t].pc = "idle"
    /\ emTask' = [emTask EXCEPT ![t] =
            IF id \in emDocs
            THEN [op |-> "destroy", pc |-> "write", id |-> id, seen |-> emProp[id], target |-> "none"]
            ELSE EmIdleTask]
    /\ UNCHANGED <<emDocs, emProp, emTags>>
    /\ EmFrame

AssertNothing(task) == TRUE

\* The batch asserts that the MailboxIds it was built from is still the
\* stored value (optimistic concurrency).
AssertValue(task) == task.id \in emDocs /\ emProp[task.id] = task.seen

\* Email/set, the write: one atomic batch replaces the property and updates
\* the tags it was built to change (destroy: deletes the document and its
\* tags); a failed assertion writes nothing ("try again").
SetWrite(t) ==
    /\ emTask[t].pc = "write"
    /\ LET task == emTask[t] IN
       IF ~AssertValue(task)
       THEN UNCHANGED <<emDocs, emProp, emTags>>
       ELSE IF task.op = "move"
       THEN /\ emProp' = [emProp EXCEPT ![task.id] = {task.target}]
            /\ emTags' = [m \in StressMailboxes |->
                    IF m = task.target THEN emTags[m] \cup {task.id}
                    ELSE IF m \in task.seen THEN emTags[m] \ {task.id}
                    ELSE emTags[m]]
            /\ UNCHANGED emDocs
       ELSE /\ emDocs' = emDocs \ {task.id}
            /\ emProp' = [emProp EXCEPT ![task.id] = {}]
            /\ emTags' = [m \in StressMailboxes |->
                    IF m \in task.seen THEN emTags[m] \ {task.id} ELSE emTags[m]]
    /\ emTask' = [emTask EXCEPT ![t] = EmIdleTask]
    /\ EmFrame

EmNext ==
    \E t \in Tasks :
        \/ \E m \in StressMailboxes : EmailImport(t, m)
        \/ \E id \in EmailIds : \E m \in StressMailboxes : SetUpdateRead(t, id, m)
        \/ \E id \in EmailIds : SetDestroyRead(t, id)
        \/ SetWrite(t)

(***************************************************************************)
(* ACL engine and access tokens (crates/jmap/src/auth/account.rs,          *)
(* tests/src/jmap/auth_acl.rs)                                             *)
(***************************************************************************)

ACL_Read == "Read"
ACL_ReadItems == "ReadItems"
ACL_AddItems == "AddItems"
ACL_RemoveItems == "RemoveItems"
ACL_ModifyItems == "ModifyItems"
ACL_CreateChild == "CreateChild"
ACL_Modify == "Modify"
ACL_Delete == "Delete"
ACL_Submit == "Submit"
ACL_Administer == "Administer"

AllRights ==
    {ACL_Read, ACL_ReadItems, ACL_AddItems, ACL_RemoveItems, ACL_ModifyItems,
     ACL_CreateChild, ACL_Modify, ACL_Delete, ACL_Submit, ACL_Administer}

\* The individuals and the group of the test; every principal is an account.
Users == {"john", "jane", "bill"}
Group == "sales"
\* The principals Jane's mailboxes are shared with.
Grantees == {"john", "bill"}
\* The principals a mailbox ACL may name: the grantees and the group.
AclPrincipals == Grantees \cup {Group}

\* Jane's Inbox and Trash, and the Inbox of the sales group.
MailboxAccount == [inbox |-> "jane", trash |-> "jane", sales_inbox |-> Group]
Mailboxes == DOMAIN MailboxAccount
AccountInbox == [jane |-> "inbox", sales |-> "sales_inbox"]
SharedAccounts == DOMAIN AccountInbox

\* The emails: e1 "Owned by jane in inbox", e2 "Owned by jane in trash",
\* e3 "Created by john in jane's inbox", e4 "Owned by sales in inbox",
\* e5 "Created by john in sales", e6 an email of Jane that lies in her Trash
\* and in her Inbox.
EmailHome ==
    [e1 |-> "inbox", e2 |-> "trash", e3 |-> "inbox", e4 |-> "sales_inbox",
     e5 |-> "sales_inbox", e6 |-> "trash"]
Emails == DOMAIN EmailHome
\* The further mailboxes of an email (its MailboxIds besides EmailHome).
EmailAlsoIn(e) == IF e = "e6" THEN {"inbox"} ELSE {}
\* The email an import, copy or move into an account's Inbox creates.
NewEmail == [jane |-> "e3", sales |-> "e5"]
EmailsOf(m) == {e \in Emails : EmailHome[e] = m}

\* The rights lists a Mailbox/set may grant a principal on a mailbox: on
\* Jane's Inbox John gets nothing, the two read-only lists of the test,
\* everything, or everything but one right; on her Trash nothing or
\* ReadItems; Bill gets nothing or [Read, ReadItems] on the Inbox.
AclChoices(m, g) ==
    IF m = "inbox" /\ g = "john"
    THEN {{}, {ACL_ReadItems}, {ACL_Read, ACL_ReadItems}, AllRights}
             \cup {AllRights \ {r} : r \in AllRights \ {ACL_Submit}}
    ELSE IF m = "trash" /\ g = "john" THEN {{}, {ACL_ReadItems}}
    ELSE IF m = "inbox" /\ g = "bill" THEN {{}, {ACL_Read, ACL_ReadItems}}
    ELSE IF m = "inbox" /\ g = Group
    THEN {{}, {ACL_ReadItems}, {ACL_Read, ACL_ReadItems}, {ACL_Read, ACL_ReadItems, ACL_AddItems}}
    ELSE {{}}

NoToken == [primary_id |-> "none", member_of |-> {}, access_to |-> {}]

NoReq ==
    [who |-> "none", account |-> "none", op |-> "none", mailbox |-> "none",
     email |-> "none", result |-> "none", listed |-> {}, rights |-> {},
     fresh |-> FALSE, dir |-> TRUE, changed |-> FALSE]

AclInit ==
    /\ acl = [m \in Mailboxes |-> [g \in AclPrincipals |-> {}]]
    /\ members = {}
    /\ tokens = [u \in Users |-> NoToken]
    /\ sessions = [u \in Users |-> FALSE]
    /\ acData = [emails |-> {"e1", "e2", "e4", "e6"}, seen |-> {}, renamed |-> {},
                 child |-> {}, gone |-> {}, copies |-> {}]
    /\ revoked = {}
    /\ lastReq = NoReq

AclIdle == AclInit

\* get_account_gids: the groups of the account in the directory, or the
\* empty list when the directory query fails (fetch_ids logs and returns vec![]).
get_account_gids(account_id, dirOk) ==
    IF dirOk /\ account_id \in members THEN {Group} ELSE {}

\* The rights the ACLs of mailbox m grant a token's principal itself.
acl_rights_direct(token, m) ==
    UNION {acl[m][g] : g \in {token.primary_id} \cap AclPrincipals}

\* The rights the ACLs of mailbox m grant a token's principal, directly or
\* through the groups the token lists.
acl_rights(token, m) ==
    UNION {acl[m][g] : g \in ({token.primary_id} \cup token.member_of) \cap AclPrincipals}

\* update_acl_token: fills access_to from the ACLs of the mailboxes of the
\* other accounts, one entry per mailbox with its rights.
update_acl_token(token) ==
    [token EXCEPT !.access_to =
        {[account |-> MailboxAccount[m], mailbox |-> m, rights |-> acl_rights(token, m)] :
            m \in {x \in Mailboxes : /\ MailboxAccount[x] # token.primary_id
                                     /\ acl_rights(token, x) # {}}}]

\* The token without its groups.
get_acl_token_no_gids(account_id, dirOk) ==
    update_acl_token([primary_id |-> account_id, member_of |-> {}, access_to |-> {}])

get_acl_token(account_id, dirOk) ==
    update_acl_token([primary_id |-> account_id,
                      member_of |-> get_account_gids(account_id, dirOk),
                      access_to |-> {}])

\* A request is served with the cached token of its session; without a
\* cached session or token the principal is authenticated and a token built.
Cached(p) == sessions[p] /\ tokens[p] # NoToken
AccessToken(p, dirOk) == IF Cached(p) THEN tokens[p] ELSE get_acl_token(p, dirOk)

is_member(token, account) ==
    token.primary_id = account \/ account \in token.member_of

\* The rights of a token on a mailbox: everything on the accounts it is a
\* member of, the rights of its access_to entry on the others.
MailboxRights(token, m) ==
    IF is_member(token, MailboxAccount[m]) THEN AllRights
    ELSE UNION {a.rights : a \in {x \in token.access_to : x.mailbox = m}}

\* The token reaches the emails of an account it is a member of or that
\* shares a mailbox with ReadItems.
HasAccess(token, account) ==
    \/ is_member(token, account)
    \/ \E a \in token.access_to : a.account = account /\ ACL_ReadItems \in a.rights

\* Destroying a mailbox requires Delete alone.
RequiredRightsDeleteOnly(op) ==
    CASE op = "Mailbox/get" -> {ACL_Read}
      [] op \in {"Email/get", "Email/query"} -> {ACL_ReadItems}
      [] op \in {"Email/import", "Email/copy", "Email/move"} -> {ACL_AddItems}
      [] op = "Email/destroy" -> {ACL_RemoveItems}
      [] op = "Email/keyword" -> {ACL_ModifyItems}
      [] op = "Mailbox/create" -> {ACL_CreateChild}
      [] op = "Mailbox/rename" -> {ACL_Modify}
      [] op = "Mailbox/destroy" -> {ACL_Delete}
      [] op \in {"Mailbox/acl/get", "Mailbox/acl/set"} -> {ACL_Administer}

RequiredRights(op) ==
    CASE op = "Mailbox/get" -> {ACL_Read}
      [] op \in {"Email/get", "Email/query"} -> {ACL_ReadItems}
      [] op \in {"Email/import", "Email/copy", "Email/move"} -> {ACL_AddItems}
      [] op = "Email/destroy" -> {ACL_RemoveItems}
      [] op = "Email/keyword" -> {ACL_ModifyItems}
      [] op = "Mailbox/create" -> {ACL_CreateChild}
      [] op = "Mailbox/rename" -> {ACL_Modify}
      [] op = "Mailbox/destroy" -> {ACL_Delete, ACL_RemoveItems}
      [] op \in {"Mailbox/acl/get", "Mailbox/acl/set"} -> {ACL_Administer}

Allowed(token, m, op) == RequiredRights(op) \subseteq MailboxRights(token, m)

\* The rights the ACL of mailbox m grants principal p itself.
Granted(p, m) == IF p \in Grantees THEN acl[m][p] ELSE {}

\* The MailboxIds of an email: the mailboxes it lies in that still exist.
EmailMailboxes(e) == ({EmailHome[e]} \cup EmailAlsoIn(e)) \ acData.gone

\* An email is read through a mailbox only when each of its mailboxes
\* grants ReadItems.
VisibleInAll(token, e) ==
    /\ EmailMailboxes(e) # {}
    /\ \A m \in EmailMailboxes(e) : Allowed(token, m, "Email/get")

\* An email is visible to a token when one of its mailboxes grants ReadItems.
Visible(token, e) ==
    \E m \in EmailMailboxes(e) : Allowed(token, m, "Email/get")

\* The response of a request and what it leaves in the caches and the store.
Answer(p, token, account, op, m, e, result, listed, data, dirOk) ==
    /\ lastReq = NoReq
    /\ acData' = data
    /\ lastReq' =
          [who |-> p, account |-> account, op |-> op, mailbox |-> m, email |-> e,
           result |-> result, listed |-> listed,
           rights |-> IF e \in Emails
                      THEN UNION {Granted(p, x) : x \in EmailMailboxes(e)}
                      ELSE IF m \in Mailboxes THEN Granted(p, m) ELSE {},
           fresh |-> ~Cached(p), dir |-> Cached(p) \/ dirOk,
           changed |-> data # acData]
    /\ tokens' = [tokens EXCEPT ![p] = token]
    /\ sessions' = [sessions EXCEPT ![p] = TRUE]
    /\ UNCHANGED <<acl, members, revoked>>

\* A Mailbox/set or Email/set item: applied when the rights allow it,
\* Forbidden and nothing written otherwise.
SetItem(p, m, e, op, data, dirOk) ==
    LET token == AccessToken(p, dirOk)
        ok == Allowed(token, m, op)
    IN  Answer(p, token, MailboxAccount[m], op, m, e,
               IF ok THEN "ok" ELSE "Forbidden", {},
               IF ok THEN data ELSE acData, dirOk)

MailboxGet(p, m, dirOk) ==
    /\ m \notin acData.gone
    /\ SetItem(p, m, "none", "Mailbox/get", acData, dirOk)
    /\ AclFrame

\* Email/get of one id: Forbidden without access to the account's emails;
\* the email when one of its mailboxes grants ReadItems; no object otherwise.
EmailGet(p, e, dirOk) ==
    /\ LET token == AccessToken(p, dirOk)
              m == EmailHome[e]
              result ==
                  IF ~HasAccess(token, MailboxAccount[m]) THEN "Forbidden"
                  ELSE IF e \in acData.emails /\ Visible(token, e) THEN "ok"
                  ELSE "none"
          IN  Answer(p, token, MailboxAccount[m], "Email/get", m, e, result, {}, acData, dirOk)
    /\ AclFrame

\* Email/query without filter: the emails of the account the token can read.
EmailQuery(p, account, dirOk) ==
    /\ LET token == AccessToken(p, dirOk)
              ids == {e \in acData.emails :
                         /\ MailboxAccount[EmailHome[e]] = account
                         /\ Visible(token, e)}
          IN  IF HasAccess(token, account)
              THEN Answer(p, token, account, "Email/query", "none", "none", "ok", ids, acData, dirOk)
              ELSE Answer(p, token, account, "Email/query", "none", "none", "Forbidden", {}, acData, dirOk)
    /\ AclFrame

\* Email/import, Email/copy or a move into the Inbox of an account.
EmailAdd(p, account, op, dirOk) ==
    /\ op \in {"Email/import", "Email/copy", "Email/move"}
    /\ AccountInbox[account] \notin acData.gone
    /\ NewEmail[account] \notin acData.emails
    /\ SetItem(p, AccountInbox[account], NewEmail[account], op,
               [acData EXCEPT !.emails = @ \cup {NewEmail[account]}], dirOk)
    /\ AclFrame

EmailDestroy(p, e, dirOk) ==
    /\ e \in acData.emails
    /\ SetItem(p, EmailHome[e], e, "Email/destroy",
               [acData EXCEPT !.emails = @ \ {e}, !.seen = @ \ {e}], dirOk)
    /\ AclFrame

EmailSetKeyword(p, e, dirOk) ==
    /\ e \in acData.emails
    /\ SetItem(p, EmailHome[e], e, "Email/keyword", [acData EXCEPT !.seen = @ \cup {e}], dirOk)
    /\ AclFrame

MailboxCreate(p, m, dirOk) ==
    /\ m \notin acData.gone
    /\ m \notin acData.child
    /\ SetItem(p, m, "none", "Mailbox/create", [acData EXCEPT !.child = @ \cup {m}], dirOk)
    /\ AclFrame

MailboxRename(p, m, dirOk) ==
    /\ m \notin acData.gone
    /\ SetItem(p, m, "none", "Mailbox/rename", [acData EXCEPT !.renamed = @ \cup {m}], dirOk)
    /\ AclFrame

\* An ACL change leaves the caches as they are.
KeepCaches(caches) == caches

\* An ACL change bulk-clears access_tokens and sessions.
InvalidateCaches(caches) ==
    [tokens |-> [u \in Users |-> NoToken], sessions |-> [u \in Users |-> FALSE]]

\* Mailbox/destroy with onDestroyRemoveEmails: the mailbox goes with its
\* emails and its ACL.
MailboxDestroy(p, m, dirOk) ==
    /\ lastReq = NoReq
    /\ m \notin acData.gone
    /\ LET token == AccessToken(p, dirOk)
              ok == Allowed(token, m, "Mailbox/destroy")
              acl2 == IF ok THEN [acl EXCEPT ![m] = [g \in AclPrincipals |-> {}]] ELSE acl
              data ==
                  IF ok
                  THEN [emails |-> acData.emails \ EmailsOf(m),
                        seen |-> acData.seen \ EmailsOf(m),
                        renamed |-> acData.renamed \ {m}, child |-> acData.child \ {m},
                        gone |-> acData.gone \cup {m}, copies |-> acData.copies]
                  ELSE acData
              used == [tokens |-> [tokens EXCEPT ![p] = token],
                       sessions |-> [sessions EXCEPT ![p] = TRUE]]
              caches == IF acl2 # acl THEN InvalidateCaches(used) ELSE used
          IN  /\ acl' = acl2
              /\ acData' = data
              /\ tokens' = caches.tokens
              /\ sessions' = caches.sessions
              /\ revoked' = IF ok THEN {x \in revoked : x[1] # m} ELSE revoked
              /\ lastReq' =
                    [who |-> p, account |-> MailboxAccount[m], op |-> "Mailbox/destroy",
                     mailbox |-> m, email |-> "none",
                     result |-> IF ok THEN "ok" ELSE "Forbidden", listed |-> {},
                     rights |-> Granted(p, m), fresh |-> ~Cached(p),
                     dir |-> Cached(p) \/ dirOk, changed |-> data # acData]
              /\ UNCHANGED members
    /\ AclFrame

MailboxGetAcl(p, m, dirOk) ==
    /\ m \notin acData.gone
    /\ SetItem(p, m, "none", "Mailbox/acl/get", acData, dirOk)
    /\ AclFrame

\* Mailbox/set that replaces the rights of grantee g on mailbox m.
MailboxUpdateAcl(p, m, g, rights, dirOk) ==
    /\ lastReq = NoReq
    /\ m \notin acData.gone
    /\ g # p
    /\ rights \in AclChoices(m, g)
    /\ rights # acl[m][g]
    /\ LET token == AccessToken(p, dirOk)
              ok == Allowed(token, m, "Mailbox/acl/set")
              acl2 == IF ok THEN [acl EXCEPT ![m][g] = rights] ELSE acl
              used == [tokens |-> [tokens EXCEPT ![p] = token],
                       sessions |-> [sessions EXCEPT ![p] = TRUE]]
              caches == IF acl2 # acl THEN InvalidateCaches(used) ELSE used
          IN  /\ acl' = acl2
              /\ tokens' = caches.tokens
              /\ sessions' = caches.sessions
              /\ lastReq' =
                    [who |-> p, account |-> MailboxAccount[m], op |-> "Mailbox/acl/set",
                     mailbox |-> m, email |-> "none",
                     result |-> IF ok THEN "ok" ELSE "Forbidden", listed |-> {},
                     rights |-> Granted(p, m), fresh |-> ~Cached(p),
                     dir |-> Cached(p) \/ dirOk, changed |-> acl2 # acl]
              /\ revoked' =
                    IF ~ok THEN revoked
                    ELSE IF rights = {} /\ acl[m][g] # {} THEN revoked \cup {<<m, g>>}
                    ELSE IF rights # {} THEN revoked \ {<<m, g>>}
                    ELSE revoked
              /\ UNCHANGED <<members, acData>>
    /\ AclFrame

\* The session resource: the principal's account, its groups and the
\* accounts shared with it.
RefreshSession(p, dirOk) ==
    /\ LET token == AccessToken(p, dirOk)
              accounts == {p} \cup token.member_of
                              \cup {a \in SharedAccounts : HasAccess(token, a)}
          IN  Answer(p, token, p, "Session", "none", "none", "ok", accounts, acData, dirOk)
    /\ AclFrame

\* The directory: add_to_group / remove_from_group of the test.
AddToGroup(u) ==
    /\ u \notin members
    /\ members' = members \cup {u}
    /\ lastReq = NoReq
    /\ UNCHANGED <<acl, tokens, sessions, acData, revoked, lastReq>>
    /\ AclFrame

RemoveFromGroup(u) ==
    /\ u \in members
    /\ members' = members \ {u}
    /\ lastReq = NoReq
    /\ UNCHANGED <<acl, tokens, sessions, acData, revoked, lastReq>>
    /\ AclFrame

\* server.access_tokens.clear()
ClearAccessTokens ==
    /\ \E u \in Users : tokens[u] # NoToken
    /\ tokens' = [u \in Users |-> NoToken]
    /\ lastReq = NoReq
    /\ UNCHANGED <<acl, members, sessions, acData, revoked, lastReq>>
    /\ AclFrame

\* server.sessions.clear()
ClearSessions ==
    /\ \E u \in Users : sessions[u]
    /\ sessions' = [u \in Users |-> FALSE]
    /\ lastReq = NoReq
    /\ UNCHANGED <<acl, members, tokens, acData, revoked, lastReq>>
    /\ AclFrame

\* The source of a copy is not checked.
SourceUnchecked(token, e) == TRUE

\* The token reads the source of a copy: an email of its own account or of
\* an account it is a member of, or one visible through a shared mailbox.
SourceReadable(token, e) ==
    \/ is_member(token, MailboxAccount[EmailHome[e]])
    \/ Visible(token, e)

\* Blob/copy of the blob of email e into the principal's own account.
BlobCopy(p, e, dirOk) ==
    /\ e \in acData.emails
    /\ MailboxAccount[EmailHome[e]] # p
    /\ LET token == AccessToken(p, dirOk)
           ok == SourceReadable(token, e)
       IN  Answer(p, token, p, "Blob/copy", "none", e,
                  IF ok THEN "ok" ELSE "Forbidden", {},
                  IF ok THEN [acData EXCEPT !.copies = @ \cup {p}] ELSE acData, dirOk)
    /\ AclFrame

\* Email/copy of email e of another account into the principal's own account
\* or into the Inbox of a shared account.
EmailCopy(p, e, account, dirOk) ==
    /\ e \in acData.emails
    /\ MailboxAccount[EmailHome[e]] # account
    /\ account \in SharedAccounts =>
          /\ AccountInbox[account] \notin acData.gone
          /\ NewEmail[account] \notin acData.emails
    /\ LET token == AccessToken(p, dirOk)
           m == IF account \in SharedAccounts THEN AccountInbox[account] ELSE "none"
           ok == /\ SourceReadable(token, e)
                 /\ \/ token.primary_id = account
                    \/ account \in SharedAccounts /\ Allowed(token, m, "Email/copy")
           data == IF account \in SharedAccounts
                   THEN [acData EXCEPT !.emails = @ \cup {NewEmail[account]}]
                   ELSE [acData EXCEPT !.copies = @ \cup {p}]
       IN  Answer(p, token, account, "Email/copy", m, e,
                  IF ok THEN "ok" ELSE "Forbidden", {},
                  IF ok THEN data ELSE acData, dirOk)
    /\ AclFrame

\* The client takes the response; requests are served one at a time.
TakeResponse ==
    /\ lastReq # NoReq
    /\ lastReq' = NoReq
    /\ UNCHANGED <<acl, members, tokens, sessions, acData, revoked>>
    /\ AclFrame

SharedMailboxes == {m \in Mailboxes : MailboxAccount[m] = "jane"}

\* The requests of the grantees on Jane's account and the ACL updates of Jane
\* and John.  Nobody is in a group here, so the directory's answer does not
\* matter and is taken as given.
AclNext ==
    \/ \E p \in Grantees : \E m \in SharedMailboxes : MailboxGet(p, m, TRUE)
    \/ \E p \in Grantees : \E e \in {"e1", "e2", "e3", "e6"} : EmailGet(p, e, TRUE)
    \/ \E p \in Grantees : EmailQuery(p, "jane", TRUE)
    \/ \E p \in Grantees : \E op \in {"Email/import", "Email/copy", "Email/move"} :
          EmailAdd(p, "jane", op, TRUE)
    \/ \E p \in Grantees : EmailDestroy(p, "e3", TRUE)
    \/ \E p \in Grantees : EmailSetKeyword(p, "e1", TRUE)
    \/ \E p \in Grantees : MailboxCreate(p, "inbox", TRUE)
    \/ \E p \in Grantees : MailboxRename(p, "inbox", TRUE)
    \/ \E p \in Grantees : MailboxDestroy(p, "inbox", TRUE)
    \/ \E p \in Grantees : MailboxGetAcl(p, "inbox", TRUE)
    \/ \E p \in Users : \E m \in SharedMailboxes : \E g \in Grantees :
          \E rights \in AclChoices(m, g) : MailboxUpdateAcl(p, m, g, rights, TRUE)
    \/ \E p \in Grantees : RefreshSession(p, TRUE)
    \/ TakeResponse

\* The members of the sales group, the caches and the requests on the
\* group's account.
GroupNext ==
    \/ \E u \in Users : AddToGroup(u)
    \/ \E u \in Users : RemoveFromGroup(u)
    \/ ClearAccessTokens
    \/ ClearSessions
    \/ \E p \in Users : \E e \in {"e4", "e5"} : \E dirOk \in BOOLEAN : EmailGet(p, e, dirOk)
    \/ \E dirOk \in BOOLEAN : EmailAdd("john", Group, "Email/import", dirOk)
    \/ \E p \in Users : \E dirOk \in BOOLEAN : RefreshSession(p, dirOk)
    \/ TakeResponse

\* John's copies between his own account, Jane's account and the group's
\* account, while Jane changes his rights and the directory his membership.
CopyNext ==
    \/ \E m \in SharedMailboxes : \E rights \in AclChoices(m, "john") :
          MailboxUpdateAcl("jane", m, "john", rights, TRUE)
    \/ AddToGroup("john")
    \/ RemoveFromGroup("john")
    \/ ClearAccessTokens
    \/ \E e \in {"e1", "e2", "e4", "e6"} : \E dirOk \in BOOLEAN : BlobCopy("john", e, dirOk)
    \/ \E e \in {"e1", "e2", "e4", "e6"} : \E account \in {"john", "jane", "sales"} :
          \E dirOk \in BOOLEAN : EmailCopy("john", e, account, dirOk)
    \/ TakeResponse

\* John's access token while Jane changes the rights of John and of the
\* sales group on her mailboxes and the directory changes his membership.
TokenNext ==
    \/ \E m \in SharedMailboxes : \E g \in {"john", Group} : \E rights \in AclChoices(m, g) :
          MailboxUpdateAcl("jane", m, g, rights, TRUE)
    \/ AddToGroup("john")
    \/ RemoveFromGroup("john")
    \/ ClearAccessTokens
    \/ \E dirOk \in BOOLEAN : RefreshSession("john", dirOk)
    \/ \E e \in {"e1", "e2"} : \E dirOk \in BOOLEAN : EmailGet("john", e, dirOk)
    \/ \E m \in SharedMailboxes : \E dirOk \in BOOLEAN : MailboxGet("john", m, dirOk)
    \/ TakeResponse

(***************************************************************************)
(* Blobs: Blob/lookup and Blob/get (crates/jmap/src/blob/get.rs)           *)
(***************************************************************************)

MaxIds == 2          \* the ids of one Blob/lookup request

BlobAccounts == {1, 2}

\* The emails the store may hold, as <<account id, document id>>.
EmailSlots == {<<1, 1>>, <<1, 2>>, <<2, 1>>}

\* The ThreadId and MailboxIds properties of a stored email.
StoredEmail(account_id, document_id) ==
    [ThreadId |-> 10 * account_id + document_id,
     MailboxIds |-> IF document_id = 1 THEN <<1>> ELSE <<1, 3>>]

\* DataType: the type names a request can parse; a typeNames entry that is
\* none of them is a MaybeUnparsable::ParseError.
DataTypes == {"Email", "Mailbox", "Thread", "SieveScript"}

\* The typeNames of the requests drawn (contains() and the include_* flags
\* do not depend on their order).
TypeNameChoices ==
    (SUBSET {"Email", "Mailbox", "Thread"}) \cup {{"SieveScript"}, {"SieveScript", "Email"}}

\* Collections of Linked blobs: one that has a DataType and one that has not.
LinkedCollections == {"SieveScript", "NoType"}

UnparsableId == [kind |-> "ParseError"]

\* MaybeUnparsable<BlobId>: the ids a request can carry.
BlobIds ==
    [kind : {"Linked"}, account_id : BlobAccounts, collection : LinkedCollections,
     document_id : {1}]
    \cup {[kind |-> "LinkedMaildir", account_id |-> slot[1], document_id |-> slot[2]] :
             slot \in EmailSlots}
    \cup [kind : {"Temporary"}, account_id : BlobAccounts]
    \cup {UnparsableId}

IdLists == UNION {[1..n -> BlobIds] : n \in 0..MaxIds}

NoBlobReq == [op |-> "none"]

\* No Temporary blob is stored.
NoTemp == <<>>

BlobIdle ==
    /\ blobEmails = {}
    /\ blobBytes = <<>>
    /\ blobTemp = NoTemp
    /\ blobOut = NoBlobReq

\* Id::from(u32) and Id::from_parts(prefix, document): the two halves of a
\* 64-bit id.
IdFrom(document_id) == [prefix |-> 0, document |-> document_id]
IdFromPartsSwapped(thread_id, document_id) == [prefix |-> document_id, document |-> thread_id]
IdFromParts(thread_id, document_id) == [prefix |-> thread_id, document |-> document_id]

\* DataType::try_from(Collection)
DataTypeOfCollection(collection) ==
    IF collection \in DataTypes
    THEN [ok |-> TRUE, data_type |-> collection]
    ELSE [ok |-> FALSE]

\* get_property(account, Collection::Email, document, property)
get_property(store, account_id, document_id, property) ==
    IF <<account_id, document_id>> \in store
    THEN [some |-> TRUE, value |-> StoredEmail(account_id, document_id)[property]]
    ELSE [some |-> FALSE]

\* The match guard `if *account_id == req_account_id`.
AnyAccount(account_id, req_account_id) == TRUE
SameAccount(account_id, req_account_id) == account_id = req_account_id

\* One iteration of the loop over request.ids: whether the id goes to list,
\* its matched_ids (a VecMap, in insertion order) and the store reads made.
LookupLinked(req_account_id, type_names, id) ==
    IF id.account_id # req_account_id
    THEN [found |-> FALSE, matched_ids |-> <<>>, reads |-> {}]
    ELSE LET dt == DataTypeOfCollection(id.collection)
         IN [found |-> TRUE,
             matched_ids |->
                 IF dt.ok /\ dt.data_type \in type_names
                 THEN <<[key |-> dt.data_type, value |-> <<IdFrom(id.document_id)>>]>>
                 ELSE <<>>,
             reads |-> {}]

LookupLinkedMaildir(req_account_id, type_names, id, store) ==
    LET include_email == "Email" \in type_names
        include_mailbox == "Mailbox" \in type_names
        include_thread == "Thread" \in type_names
        thread_id == get_property(store, req_account_id, id.document_id, "ThreadId")
        mailboxes == get_property(store, req_account_id, id.document_id, "MailboxIds")
        emailIds ==
            IF (include_email \/ include_thread) /\ thread_id.some /\ include_email
            THEN <<[key |-> "Email",
                    value |-> <<IdFromParts(thread_id.value, id.document_id)>>]>>
            ELSE <<>>
        threadIds ==
            IF (include_email \/ include_thread) /\ thread_id.some /\ include_thread
            THEN <<[key |-> "Thread", value |-> <<IdFrom(thread_id.value)>>]>>
            ELSE <<>>
        mailboxIds ==
            IF include_mailbox /\ mailboxes.some
            THEN <<[key |-> "Mailbox",
                    value |-> [i \in DOMAIN mailboxes.value |-> IdFrom(mailboxes.value[i])]]>>
            ELSE <<>>
    IN [found |-> TRUE,
        matched_ids |-> emailIds \o threadIds \o mailboxIds,
        reads |->
            (IF include_email \/ include_thread
             THEN {<<req_account_id, id.document_id, "ThreadId">>} ELSE {})
            \cup (IF include_mailbox
                  THEN {<<req_account_id, id.document_id, "MailboxIds">>} ELSE {})]

LookupOne(req_account_id, type_names, id, store) ==
    IF id.kind = "Linked" /\ SameAccount(id.account_id, req_account_id)
    THEN LookupLinked(req_account_id, type_names, id)
    ELSE IF id.kind = "LinkedMaildir" /\ SameAccount(id.account_id, req_account_id)
    THEN LookupLinkedMaildir(req_account_id, type_names, id, store)
    ELSE IF id.kind = "Temporary" /\ SameAccount(id.account_id, req_account_id)
    THEN [found |-> TRUE, matched_ids |-> <<>>, reads |-> {}]
    ELSE [found |-> FALSE, matched_ids |-> <<>>, reads |-> {}]

\* The loop over request.ids: list and not_found in request order, and the
\* store reads made.
LookupIds(req_account_id, type_names, ids, store) ==
    LET outcome == [i \in DOMAIN ids |->
                       LookupOne(req_account_id, type_names, ids[i], store)]
        entries == [i \in DOMAIN ids |->
                       [id |-> ids[i], found |-> outcome[i].found,
                        matched_ids |-> outcome[i].matched_ids]]
        listed == SelectSeq(entries, LAMBDA e : e.found)
        missing == SelectSeq(entries, LAMBDA e : ~e.found)
    IN [list |-> [i \in DOMAIN listed |->
                     [id |-> listed[i].id, matched_ids |-> listed[i].matched_ids]],
        not_found |-> [i \in DOMAIN missing |-> missing[i].id],
        reads |-> UNION {outcome[i].reads : i \in DOMAIN ids}]

\* blob_lookup: the response (or the MethodError) and the store reads made.
\* typesOk is FALSE when a typeNames entry does not parse; storeOk is FALSE
\* when the store fails a read (the `?` after get_property).
blob_lookup(req_account_id, type_names, typesOk, ids, store, storeOk) ==
    IF ~typesOk
    THEN [ok |-> FALSE, error |-> "unknownDataType", reads |-> {}]
    ELSE LET r == LookupIds(req_account_id, type_names, ids, store)
         IN IF r.reads # {} /\ ~storeOk
            THEN [ok |-> FALSE, error |-> "storeError", reads |-> r.reads]
            ELSE [ok |-> TRUE, list |-> r.list, not_found |-> r.not_found,
                  reads |-> r.reads]

\* A Blob/lookup request.
BlobLookup(account, type_names, typesOk, ids, storeOk) ==
    /\ blobOut = NoBlobReq
    /\ blobOut' = [op |-> "lookup", account |-> account, type_names |-> type_names,
                   typesOk |-> typesOk, ids |-> ids, storeOk |-> storeOk,
                   response |-> blob_lookup(account, type_names, typesOk, ids,
                                            blobEmails, storeOk)]
    /\ UNCHANGED <<blobEmails, blobBytes, blobTemp>>
    /\ BlobFrame

\* The client takes the response; the next request can be served.
TakeBlobResponse ==
    /\ blobOut # NoBlobReq
    /\ blobOut' = NoBlobReq
    /\ UNCHANGED <<blobEmails, blobBytes, blobTemp>>
    /\ BlobFrame

LookupInit ==
    /\ blobEmails \in SUBSET EmailSlots
    /\ blobBytes = <<>>
    /\ blobTemp = NoTemp
    /\ blobOut = NoBlobReq

\* Any Blob/lookup request, once the previous response was taken.
LookupRequest ==
    /\ blobOut = NoBlobReq
    /\ \E account \in BlobAccounts : \E ids \in IdLists : \E storeOk \in BOOLEAN :
          \/ \E type_names \in TypeNameChoices :
                BlobLookup(account, type_names, TRUE, ids, storeOk)
          \/ BlobLookup(account, {"Email"}, FALSE, ids, storeOk)

LookupNext ==
    \/ LookupRequest
    \/ TakeBlobResponse

\* ---- Blob/get

MaxBlobLen == 3      \* the size of the stored blob, in bytes
UsizeBits == 3       \* the width of usize in the model

\* usize::MAX
USIZE_MAX == 2^UsizeBits - 1

\* Option::None of offset and length (no usize is negative).
None == -1

\* The bytes a blob is made of: an ASCII letter, and the lead and the
\* continuation byte of a two-byte UTF-8 sequence.
ByteValues == {97, 195, 169}

BlobContents == UNION {[1..n -> ByteValues] : n \in 0..MaxBlobLen}

\* The offsets and lengths of the requests drawn: around the blob size and
\* at the top of usize.
UsizeChoices == (0..(MaxBlobLen + 1)) \cup {USIZE_MAX - 1, USIZE_MAX}

\* The blob ids of the requests drawn: blob B is stored, blob X is not.
GetIdLists == {<<"B">>, <<"X", "B">>}

\* The properties of the requests drawn; the first is the default of
\* unwrap_properties.
DefaultProperties == <<"id", "data", "size">>
PropertyLists ==
    {DefaultProperties,
     <<"data:asText">>,
     <<"data:asBase64", "size">>,
     <<"digest:sha", "digest:sha-256", "digest:sha-512", "size">>,
     <<"data:asText", "data:asBase64">>}

\* usize::saturating_add
saturating_add(a, b) == IF a + b > USIZE_MAX THEN USIZE_MAX ELSE a + b

\* bytes.get(from..to).unwrap_or_default(): the bytes at positions from..to
\* (counted from 0, to excluded), or nothing when the range is not inside
\* the slice.
SliceGet(bytes, from, to) ==
    IF from <= to /\ to <= Len(bytes) THEN SubSeq(bytes, from + 1, to) ELSE <<>>

\* std::str::from_utf8 followed by to_string(): the code points of the text,
\* or an error. (Longer sequences than two bytes do not occur in ByteValues.)
RECURSIVE from_utf8(_)
from_utf8(bytes) ==
    IF bytes = <<>> THEN [ok |-> TRUE, text |-> <<>>]
    ELSE IF bytes[1] < 128
    THEN LET rest == from_utf8(Tail(bytes))
         IN [ok |-> rest.ok, text |-> IF rest.ok THEN <<bytes[1]>> \o rest.text ELSE <<>>]
    ELSE IF /\ bytes[1] >= 194 /\ bytes[1] <= 223
            /\ Len(bytes) >= 2 /\ bytes[2] >= 128 /\ bytes[2] <= 191
    THEN LET rest == from_utf8(SubSeq(bytes, 3, Len(bytes)))
         IN [ok |-> rest.ok,
             text |-> IF rest.ok
                      THEN <<(bytes[1] - 192) * 64 + (bytes[2] - 128)>> \o rest.text
                      ELSE <<>>]
    ELSE [ok |-> FALSE, text |-> <<>>]

Base64Chars ==
    <<"A", "B", "C", "D", "E", "F", "G", "H", "I", "J", "K", "L", "M", "N", "O", "P",
      "Q", "R", "S", "T", "U", "V", "W", "X", "Y", "Z", "a", "b", "c", "d", "e", "f",
      "g", "h", "i", "j", "k", "l", "m", "n", "o", "p", "q", "r", "s", "t", "u", "v",
      "w", "x", "y", "z", "0", "1", "2", "3", "4", "5", "6", "7", "8", "9", "+", "/">>

\* base64_encode: four characters per three bytes, padded with "=".
RECURSIVE base64_encode(_)
base64_encode(bytes) ==
    IF bytes = <<>> THEN <<>>
    ELSE IF Len(bytes) = 1
    THEN <<Base64Chars[(bytes[1] \div 4) + 1],
           Base64Chars[((bytes[1] % 4) * 16) + 1], "=", "=">>
    ELSE IF Len(bytes) = 2
    THEN <<Base64Chars[(bytes[1] \div 4) + 1],
           Base64Chars[((bytes[1] % 4) * 16 + bytes[2] \div 16) + 1],
           Base64Chars[((bytes[2] % 16) * 4) + 1], "=">>
    ELSE <<Base64Chars[(bytes[1] \div 4) + 1],
           Base64Chars[((bytes[1] % 4) * 16 + bytes[2] \div 16) + 1],
           Base64Chars[((bytes[2] % 16) * 4 + bytes[3] \div 64) + 1],
           Base64Chars[(bytes[3] % 64) + 1]>>
         \o base64_encode(SubSeq(bytes, 4, Len(bytes)))

\* Sha1 / Sha256 / Sha512 over the bytes, base64 encoded: a hash is taken as
\* a function of its algorithm and input that has no collisions.
DigestValue(property, bytes) == [digest |-> property, of |-> bytes]

\* blob_download: the bytes of the blob if it is stored (and the requester
\* may read it); stored gives the bytes of the stored blobs by blob id.
blob_download(blob_id, stored) ==
    IF blob_id \in DOMAIN stored
    THEN [some |-> TRUE, bytes |-> stored[blob_id]]
    ELSE [some |-> FALSE]

\* The range of the request: range_from and range_to.
RangeFrom(offset) == IF offset = None THEN 0 ELSE offset
RangeTo(offset, length) ==
    IF length = None THEN USIZE_MAX ELSE saturating_add(RangeFrom(offset), length)

\* Whether IsTruncated is appended for a blob of these bytes.
Truncates(bytes, range_from, range_to) ==
    /\ ~(range_from = 0 /\ range_to = USIZE_MAX)
    /\ range_to # USIZE_MAX
    /\ range_to > Len(bytes)

\* bytes_range
BytesRange(bytes, range_from, range_to) ==
    IF range_from = 0 /\ range_to = USIZE_MAX
    THEN bytes
    ELSE SliceGet(bytes, range_from,
                  IF range_to # USIZE_MAX /\ range_to > Len(bytes)
                  THEN Len(bytes) ELSE range_to)

\* The bytes the hashers, from_utf8 and base64_encode are given.
DigestInputWhole(bytes, bytes_range) == bytes
DigestInput(bytes, bytes_range) == bytes_range
TextInputWhole(bytes, bytes_range) == bytes
TextInput(bytes, bytes_range) == bytes_range
DefaultInputWhole(bytes, bytes_range) == bytes
DefaultInput(bytes, bytes_range) == bytes_range

EncodingProblem == [key |-> "isEncodingProblem", value |-> TRUE]

\* One iteration of the loop over the properties: what it appends to the
\* blob object.
GetProperty(property, blob_id, bytes, bytes_range) ==
    CASE property = "id" -> <<[key |-> "id", value |-> blob_id]>>
      [] property = "size" -> <<[key |-> "size", value |-> Len(bytes)]>>
      [] property \in {"digest:sha", "digest:sha-256", "digest:sha-512"} ->
            <<[key |-> property,
               value |-> DigestValue(property, DigestInput(bytes, bytes_range))]>>
      [] property = "data:asText" ->
            LET text == from_utf8(TextInput(bytes, bytes_range))
            IN IF text.ok
               THEN <<[key |-> "data:asText", value |-> [text |-> text.text]]>>
               ELSE <<EncodingProblem, [key |-> "data:asText", value |-> "null"]>>
      [] property = "data:asBase64" ->
            <<[key |-> "data:asBase64", value |-> [base64 |-> base64_encode(bytes_range)]]>>
      [] property = "data" ->
            LET text == from_utf8(DefaultInput(bytes, bytes_range))
            IN IF text.ok
               THEN <<[key |-> "data:asText", value |-> [text |-> text.text]]>>
               ELSE <<EncodingProblem,
                      [key |-> "data:asBase64",
                       value |-> [base64 |-> base64_encode(DefaultInput(bytes, bytes_range))]]>>
      [] OTHER -> <<[key |-> property, value |-> "null"]>>

RECURSIVE GetProperties(_, _, _, _)
GetProperties(properties, blob_id, bytes, bytes_range) ==
    IF properties = <<>> THEN <<>>
    ELSE GetProperty(Head(properties), blob_id, bytes, bytes_range)
         \o GetProperties(Tail(properties), blob_id, bytes, bytes_range)

\* The blob object built for one downloaded blob.
GetBlob(properties, blob_id, bytes, range_from, range_to) ==
    (IF Truncates(bytes, range_from, range_to)
     THEN <<[key |-> "isTruncated", value |-> TRUE]>> ELSE <<>>)
    \o GetProperties(properties, blob_id, bytes,
                     BytesRange(bytes, range_from, range_to))

\* blob_get: list and not_found in request order.
blob_get(ids, properties, offset, length, stored) ==
    LET range_from == RangeFrom(offset)
        range_to == RangeTo(offset, length)
        found == SelectSeq(ids, LAMBDA id : blob_download(id, stored).some)
        missing == SelectSeq(ids, LAMBDA id : ~blob_download(id, stored).some)
    IN [list |-> [i \in DOMAIN found |->
                     GetBlob(properties, found[i], blob_download(found[i], stored).bytes,
                             range_from, range_to)],
        not_found |-> missing]

\* ---- Blob/upload: the store

MaxFragments == 2    \* the fragments of one composed blob

\* The contents of the stored blob that uploads refer to.
UploadSources == {<<97, 195, 169>>, <<169, 97>>}

\* DataSourceObject: a literal given as base64 or as text, or a reference
\* {blobId, offset, length} to a stored blob or to a blob created earlier in
\* the request (blobId "#<create id>").
AsBase64(chars) == [kind |-> "asBase64", chars |-> chars]
AsText(text) == [kind |-> "asText", text |-> text]
BlobRef(blobId, offset, length) ==
    [kind |-> "ref", blobId |-> blobId, offset |-> offset, length |-> length]

Base64Index(ch) == (CHOOSE i \in DOMAIN Base64Chars : Base64Chars[i] = ch) - 1

\* base64_decode: three bytes per four characters, "=" is padding.
RECURSIVE base64_decode(_)
base64_decode(chars) ==
    IF chars = <<>> THEN <<>>
    ELSE LET a == Base64Index(chars[1])
             b == Base64Index(chars[2])
             first == (a * 4) + (b \div 16)
         IN IF chars[3] = "="
            THEN <<first>>
            ELSE LET c == Base64Index(chars[3])
                     second == ((b % 16) * 16) + (c \div 4)
                 IN IF chars[4] = "="
                    THEN <<first, second>>
                    ELSE <<first, second, ((c % 4) * 64) + Base64Index(chars[4])>>
                         \o base64_decode(SubSeq(chars, 5, Len(chars)))

\* String::into_bytes: the UTF-8 encoding of a text (code points below 2048).
RECURSIVE into_bytes(_)
into_bytes(text) ==
    IF text = <<>> THEN <<>>
    ELSE (IF text[1] < 128 THEN <<text[1]>>
          ELSE <<192 + (text[1] \div 64), 128 + (text[1] % 64)>>)
         \o into_bytes(Tail(text))

\* The bytes a reference takes from the blob it names.
RefBytesWhole(bytes, offset, length) == bytes
RefBytes(bytes, offset, length) ==
    LET from == IF offset = None THEN 0 ELSE offset
        to == IF length = None THEN Len(bytes) ELSE from + length
    IN SubSeq(bytes, from + 1, to)

\* The stored blob a blobId names; created maps the create ids of the
\* request so far to the blob ids they were given.
ResolveBlobId(blobId, created) ==
    IF blobId \in DOMAIN created THEN created[blobId] ELSE blobId

\* The bytes one fragment contributes.
FragmentBytes(fragment, stored, created) ==
    CASE fragment.kind = "asBase64" -> base64_decode(fragment.chars)
      [] fragment.kind = "asText" -> into_bytes(fragment.text)
      [] OTHER -> RefBytes(blob_download(ResolveBlobId(fragment.blobId, created), stored).bytes,
                           fragment.offset, fragment.length)

RECURSIVE ConcatFragments(_, _, _)
ConcatFragments(data, stored, created) ==
    IF data = <<>> THEN <<>>
    ELSE FragmentBytes(Head(data), stored, created)
         \o ConcatFragments(Tail(data), stored, created)

\* The blob id of the n-th Temporary blob of the account.
TemporaryId(n) == IF n = 1 THEN "T1" ELSE "T2"

\* Blob/upload: the objects of `create` are stored one after the other as
\* Temporary blobs; temp is the Temporary blobs stored so far (with the
\* fragments they were made of), created the create ids answered so far.
RECURSIVE blob_upload(_, _, _, _)
blob_upload(create, bytes, temp, created) ==
    IF create = <<>>
    THEN [temp |-> temp, created |-> created]
    ELSE LET object == Head(create)
             stored == [id \in {"B"} \cup DOMAIN temp |->
                           IF id = "B" THEN bytes ELSE temp[id].bytes]
             blob_id == TemporaryId(Cardinality(DOMAIN temp) + 1)
             blob == [bytes |-> ConcatFragments(object.data, stored, created),
                      data |-> object.data]
         IN blob_upload(Tail(create), bytes,
                        [id \in DOMAIN temp \cup {blob_id} |->
                            IF id = blob_id THEN blob ELSE temp[id]],
                        [id \in DOMAIN created \cup {"#" \o object.id} |->
                            IF id = "#" \o object.id THEN blob_id ELSE created[id]])

\* The stored blobs Blob/get can download.
BlobStore ==
    [id \in {"B"} \cup DOMAIN blobTemp |-> IF id = "B" THEN blobBytes ELSE blobTemp[id].bytes]

\* A Blob/get request.
BlobGet(ids, properties, offset, length) ==
    /\ blobOut = NoBlobReq
    /\ blobOut' = [op |-> "get", ids |-> ids, properties |-> properties,
                   offset |-> offset, length |-> length,
                   response |-> blob_get(ids, properties, offset, length, BlobStore)]
    /\ UNCHANGED <<blobEmails, blobBytes, blobTemp>>
    /\ BlobFrame

GetInit ==
    /\ blobEmails = {}
    /\ blobBytes \in BlobContents
    /\ blobTemp = NoTemp
    /\ blobOut = NoBlobReq

\* Any Blob/get request, once the previous response was taken.
GetRequest ==
    /\ blobOut = NoBlobReq
    /\ \E ids \in GetIdLists : \E properties \in PropertyLists :
          \E offset \in {None} \cup UsizeChoices : \E length \in {None} \cup UsizeChoices :
              BlobGet(ids, properties, offset, length)

GetNext ==
    \/ GetRequest
    \/ TakeBlobResponse

\* ---- Blob/upload: the requests

\* A Blob/upload request.
BlobUpload(create) ==
    /\ blobOut = NoBlobReq
    /\ blobTemp = NoTemp
    /\ LET done == blob_upload(create, blobBytes, blobTemp, NoTemp)
       IN /\ blobTemp' = done.temp
          /\ blobOut' = [op |-> "upload", create |-> create,
                         response |-> [created |->
                             [id \in DOMAIN done.created |->
                                 [id |-> done.created[id],
                                  size |-> Len(done.temp[done.created[id]].bytes)]]]]
    /\ UNCHANGED <<blobEmails, blobBytes>>
    /\ BlobFrame

\* The uploads drawn: one blob made of one base64 literal, for every byte
\* string; and a blob composed of fragments, after a first blob "b4" or not.
LiteralUploads ==
    {<<[id |-> "b1", data |-> <<AsBase64(base64_encode(x))>>]>> : x \in BlobContents}

FirstBlob == [id |-> "b4", data |-> <<AsText(<<97, 233>>)>>]

Fragments(withFirst) ==
    {AsText(<<97>>), AsBase64(<<"q", "Q", "=", "=">>),
     BlobRef("B", 1, 1), BlobRef("B", None, None), BlobRef("B", 1, None)}
    \cup (IF withFirst THEN {BlobRef("#b4", 1, 2)} ELSE {})

FragmentLists(withFirst) == UNION {[1..n -> Fragments(withFirst)] : n \in 1..MaxFragments}

ComposedUploads ==
    {<<[id |-> "cat", data |-> data]>> : data \in FragmentLists(FALSE)}
    \cup {<<FirstBlob, [id |-> "cat", data |-> data]>> : data \in FragmentLists(TRUE)}

UploadInit ==
    /\ blobEmails = {}
    /\ blobBytes \in UploadSources
    /\ blobTemp = NoTemp
    /\ blobOut = NoBlobReq

\* Any Blob/upload request, once the previous response was taken.
UploadRequest ==
    /\ blobOut = NoBlobReq
    /\ blobTemp = NoTemp
    /\ \E create \in LiteralUploads \cup ComposedUploads : BlobUpload(create)

\* A Blob/get of an uploaded blob, without range.
GetUploaded ==
    /\ blobOut = NoBlobReq
    /\ blobTemp # NoTemp
    /\ \E id \in DOMAIN blobTemp :
          \E properties \in {<<"data:asBase64", "size">>, <<"data:asText", "size">>} :
              BlobGet(<<id>>, properties, None, None)

UploadNext ==
    \/ UploadRequest
    \/ GetUploaded
    \/ TakeBlobResponse

(***************************************************************************)
(* OAuth device flow: one OAuthCode under the authorizing user and         *)
(* concurrent token pollers (crates/jmap/src/auth/oauth/mod.rs)            *)
(***************************************************************************)

STATUS_AUTHORIZED == 0
STATUS_TOKEN_ISSUED == 1
STATUS_PENDING == 2

NumPollers == 3
Pollers == 1..NumPollers

\* The account ids of the principals that may log in at the form.
OAuthPrincipals == {1, 2}
\* The account_id word of a code nobody authorized yet; no principal has it.
NoAccountId == 0

\* The order in which the grant writes the two words of the code.
AuthorizeOrderStatusFirst == <<"status", "account_id">>
AuthorizeOrder == <<"account_id", "status">>

PollIdle == [pc |-> "poll", status |-> STATUS_PENDING, account_id |-> NoAccountId,
             response |-> "none", granted |-> NoAccountId]

OAuthInit ==
    /\ oauth_code = [status |-> STATUS_PENDING, account_id |-> NoAccountId]
    /\ oaUser = [pc |-> "form", uid |-> NoAccountId, step |-> 1]
    /\ oaPoll = [k \in Pollers |-> PollIdle]

OAuthIdle == OAuthInit

\* status.compare_exchange(current, new): the word afterwards.
compare_exchange(word, current, new) == IF word = current THEN new ELSE word

\* The user submits the form with the credentials of principal uid while the
\* code is pending: the login succeeds and the grant begins.
UserLogin(uid) ==
    /\ oaUser.pc = "form"
    /\ oauth_code.status = STATUS_PENDING
    /\ oaUser' = [pc |-> "grant", uid |-> uid, step |-> 1]
    /\ UNCHANGED <<oauth_code, oaPoll>>
    /\ OAuthFrame

\* The grant writes one word of the code: account_id by a store, status by a
\* compare-and-set Pending -> Authorized.
UserStore ==
    /\ oaUser.pc = "grant"
    /\ oauth_code' =
          IF AuthorizeOrder[oaUser.step] = "account_id"
          THEN [oauth_code EXCEPT !.account_id = oaUser.uid]
          ELSE [oauth_code EXCEPT !.status =
                    compare_exchange(oauth_code.status, STATUS_PENDING, STATUS_AUTHORIZED)]
    /\ oaUser' = IF oaUser.step = Len(AuthorizeOrder)
                 THEN [oaUser EXCEPT !.pc = "done"]
                 ELSE [oaUser EXCEPT !.step = oaUser.step + 1]
    /\ UNCHANGED oaPoll
    /\ OAuthFrame

\* A token request loads the status word: authorization_pending while it is
\* Pending, expired_token once the token was issued, and on Authorized it
\* goes on to read the account id.
PollLoad(k) ==
    /\ oaPoll[k].pc = "poll"
    /\ oaPoll[k].response # "granted"
    /\ LET st == oauth_code.status IN
       oaPoll' = [oaPoll EXCEPT ![k] =
          CASE st = STATUS_AUTHORIZED ->
                  [PollIdle EXCEPT !.pc = "read", !.status = st]
            [] st = STATUS_TOKEN_ISSUED ->
                  [PollIdle EXCEPT !.status = st, !.response = "expired_token"]
            [] OTHER ->
                  [PollIdle EXCEPT !.status = st, !.response = "authorization_pending"]]
    /\ UNCHANGED <<oauth_code, oaUser>>
    /\ OAuthFrame

\* The token request loads the account_id word.
PollRead(k) ==
    /\ oaPoll[k].pc = "read"
    /\ oaPoll' = [oaPoll EXCEPT ![k].pc = "issue", ![k].account_id = oauth_code.account_id]
    /\ UNCHANGED <<oauth_code, oaUser>>
    /\ OAuthFrame

\* The token request moves the status Authorized -> TokenIssued by a
\* compare-and-set and, when it won, answers with a token for the account id
\* it read.
PollIssue(k) ==
    /\ oaPoll[k].pc = "issue"
    /\ oauth_code' = [oauth_code EXCEPT !.status =
            compare_exchange(oauth_code.status, STATUS_AUTHORIZED, STATUS_TOKEN_ISSUED)]
    /\ oaPoll' = [oaPoll EXCEPT ![k] =
            IF oauth_code.status = STATUS_AUTHORIZED
            THEN [oaPoll[k] EXCEPT !.pc = "poll", !.response = "granted",
                                   !.granted = oaPoll[k].account_id]
            ELSE [oaPoll[k] EXCEPT !.pc = "poll", !.response = "expired_token"]]
    /\ UNCHANGED oaUser
    /\ OAuthFrame

OAuthNext ==
    \/ \E uid \in OAuthPrincipals : UserLogin(uid)
    \/ UserStore
    \/ \E k \in Pollers : PollLoad(k)
    \/ \E k \in Pollers : PollRead(k)
    \/ \E k \in Pollers : PollIssue(k)

(***************************************************************************)
(* Directory gateway and authenticate (crates/jmap/src/auth/account.rs)    *)
(***************************************************************************)

\* The directory of the ACL test: the uid and the secret of each login, the
\* sales group having no secret; the groups of a uid are `members`.
DirectoryLogins ==
    [login \in {"jdoe@example.com", "jane.smith@example.com", "bill@example.com",
                "sales@example.com"} |->
        CASE login = "jdoe@example.com" -> 1
          [] login = "jane.smith@example.com" -> 2
          [] login = "bill@example.com" -> 3
          [] OTHER -> 4]
DirectorySecrets == <<"12345", "abcde", "098765">>
\* The account of the ACL engine a uid stands for.
AccountOf == <<"john", "jane", "bill", "sales">>

\* The logins and secrets a caller may present, the uids it may ask for.
LoginChoices == DOMAIN DirectoryLogins \cup {"nobody@example.com"}
SecretChoices == {"12345", "abcde", "098765", ""}
UidChoices == 1..5
AuthDatabases == {"Sql", "Ldap"}

Nothing == [some |-> FALSE]
Some(v) == [some |-> TRUE, value |-> v]

\* What sqlx hands back: Err(_), or Ok with the rows the query selects.
SqlErr == [ok |-> FALSE]
SqlOk(rows) == [ok |-> TRUE, rows |-> rows]

\* query_uid_by_login, query_secret_by_uid and query_login_by_uid against the
\* backend, which answers or fails.
QueryUidByLogin(login, healthy) ==
    IF ~healthy THEN SqlErr
    ELSE IF login \in DOMAIN DirectoryLogins THEN SqlOk(<<DirectoryLogins[login]>>)
    ELSE SqlOk(<< >>)

QuerySecretByUid(uid, healthy) ==
    IF ~healthy THEN SqlErr
    ELSE IF uid \in DOMAIN DirectorySecrets THEN SqlOk(<<DirectorySecrets[uid]>>)
    ELSE SqlOk(<< >>)

QueryLoginByUid(uid, healthy) ==
    IF ~healthy THEN SqlErr
    ELSE SqlOk(IF \E login \in DOMAIN DirectoryLogins : DirectoryLogins[login] = uid
               THEN <<CHOOSE login \in DOMAIN DirectoryLogins : DirectoryLogins[login] = uid>>
               ELSE << >>)

\* fetch_optional(..): the first row, if any.
fetch_optional(result) ==
    IF result.rows = << >> THEN Nothing ELSE Some(result.rows[1])

\* SqlDatabase::fetch_string / fetch_id that hand the error on to the caller.
fetch_propagate(result) ==
    IF result.ok THEN fetch_optional(result) ELSE [some |-> FALSE, error |-> "sql"]

\* SqlDatabase::fetch_string: the row, None when there is none and None
\* (with a warning logged) when the query failed.
fetch_string(result) ==
    IF result.ok THEN fetch_optional(result) ELSE Nothing

\* SqlDatabase::fetch_id
fetch_id(result) ==
    IF result.ok THEN fetch_optional(result) ELSE Nothing

\* `id as u32`: the low bits of the i64, on words of U32Bits bits.
U32Bits == 3
as_u32(id) == id % (2^U32Bits)

\* JMAP::get_account_id
get_account_id(auth_db, account, healthy) ==
    IF auth_db = "Sql"
    THEN LET id == fetch_id(QueryUidByLogin(account, healthy))
         IN IF id.some THEN Some(as_u32(id.value)) ELSE id
    ELSE Nothing

\* JMAP::get_account_secret
get_account_secret(auth_db, account_id, healthy) ==
    IF auth_db = "Sql" THEN fetch_string(QuerySecretByUid(account_id, healthy)) ELSE Nothing

\* JMAP::get_account_login
get_account_login(auth_db, account_id, healthy) ==
    IF auth_db = "Sql" THEN fetch_string(QueryLoginByUid(account_id, healthy)) ELSE Nothing

\* Which of the queries of one authenticate call the backend answers.
HealthChoices == [uid : BOOLEAN, secret : BOOLEAN, gids : BOOLEAN]
Healthy == [uid |-> TRUE, secret |-> TRUE, gids |-> TRUE]

\* JMAP::authenticate
authenticate(auth_db, account, secret, health) ==
    LET account_id == get_account_id(auth_db, account, health.uid) IN
    IF ~account_id.some THEN Nothing
    ELSE LET account_secret == get_account_secret(auth_db, account_id.value, health.secret) IN
         IF ~account_secret.some THEN Nothing
         ELSE IF secret = account_secret.value
              THEN Some(get_acl_token(AccountOf[account_id.value], health.gids))
              ELSE Nothing

NoAuthCall == [op |-> "none"]

AuthInit == authOut = NoAuthCall
AuthIdle == AuthInit

\* One of the four directory reads.
DirectoryRead(op, auth_db, login, uid, healthy) ==
    /\ authOut' =
          [op |-> op, auth_db |-> auth_db, healthy |-> healthy,
           login |-> login, uid |-> uid,
           result |->
              CASE op = "get_account_id" -> get_account_id(auth_db, login, healthy)
                [] op = "get_account_secret" -> get_account_secret(auth_db, uid, healthy)
                [] op = "get_account_login" -> get_account_login(auth_db, uid, healthy)
                [] OTHER -> IF uid \in DOMAIN AccountOf
                            THEN get_account_gids(AccountOf[uid], healthy /\ auth_db = "Sql")
                            ELSE {}]
    /\ UNCHANGED aclVars
    /\ AuthFrame

DirectoryReads == {"get_account_id", "get_account_secret", "get_account_login", "get_account_gids"}

\* A login: authenticate(account, secret).
Authenticate(auth_db, account, secret, health) ==
    /\ authOut' = [op |-> "authenticate", auth_db |-> auth_db, health |-> health,
                   login |-> account, secret |-> secret,
                   result |-> authenticate(auth_db, account, secret, health)]
    /\ UNCHANGED aclVars
    /\ AuthFrame

\* The caller takes the result.
TakeAuthResult ==
    /\ authOut # NoAuthCall
    /\ authOut' = NoAuthCall
    /\ UNCHANGED aclVars
    /\ AuthFrame

\* Directory reads and logins against a backend that answers or fails, while
\* the directory changes the members of the sales group.
AuthNext ==
    \/ /\ authOut = NoAuthCall
       /\ \E op \in DirectoryReads : \E auth_db \in AuthDatabases : \E login \in LoginChoices :
            \E uid \in UidChoices : \E healthy \in BOOLEAN :
                DirectoryRead(op, auth_db, login, uid, healthy)
    \/ /\ authOut = NoAuthCall
       /\ \E auth_db \in AuthDatabases : \E account \in LoginChoices :
            \E secret \in SecretChoices : \E health \in HealthChoices :
                Authenticate(auth_db, account, secret, health)
    \/ TakeAuthResult
    \/ /\ authOut = NoAuthCall
       /\ \E u \in Users : AddToGroup(u)
    \/ /\ authOut = NoAuthCall
       /\ \E u \in Users : RemoveFromGroup(u)

(***************************************************************************)
(* The parts of a DSN: text, per-recipient blocks, original headers        *)
(* (crates/smtp/src/queue/dsn.rs)                                          *)
(***************************************************************************)

NoDoc == [op |-> "none"]
DocInit == dsnDoc = NoDoc

\* The recipients of the reported message and the category of the line each
\* contributed (none when build_dsn wrote no line for it).
DocAddresses == <<"x@b", "y@c", "z@d">>
Categories == {"none", "success", "delay", "failure"}

\* txt_success / txt_delay / txt_failed: the lines of the recipients of one
\* category, in the order of the recipients.
RECURSIVE TxtOf(_, _, _)
TxtOf(assign, cat, r) ==
    IF r > Len(DocAddresses) THEN << >>
    ELSE (IF assign[r] = cat THEN <<DocAddresses[r]>> ELSE << >>) \o TxtOf(assign, cat, r + 1)

\* build_dsn, "Build text response": every mixed report gets the
\* "partially delivered" subject.
SubjectAnyMixed(has_success, has_delay, has_failure) ==
    IF has_success /\ ~has_delay /\ ~has_failure
    THEN [intro |-> "Your message has been successfully delivered to the following recipients:",
          subject |-> "Successfully delivered message", is_mixed |-> FALSE]
    ELSE IF has_delay /\ ~has_success /\ ~has_failure
    THEN [intro |-> "There was a temporary problem delivering your message to the following recipients:",
          subject |-> "Warning: Delay in message delivery", is_mixed |-> FALSE]
    ELSE IF has_failure /\ ~has_success /\ ~has_delay
    THEN [intro |-> "Your message could not be delivered to the following recipients:",
          subject |-> "Failed to deliver message", is_mixed |-> FALSE]
    ELSE [intro |-> "Your message has been partially delivered:",
          subject |-> "Partially delivered message", is_mixed |-> TRUE]

\* build_dsn, "Build text response": the subject, the opening sentence and
\* whether the report is mixed.
Subject(has_success, has_delay, has_failure) ==
    IF has_success /\ ~has_delay /\ ~has_failure
    THEN [intro |-> "Your message has been successfully delivered to the following recipients:",
          subject |-> "Successfully delivered message", is_mixed |-> FALSE]
    ELSE IF has_delay /\ ~has_success /\ ~has_failure
    THEN [intro |-> "There was a temporary problem delivering your message to the following recipients:",
          subject |-> "Warning: Delay in message delivery", is_mixed |-> FALSE]
    ELSE IF has_failure /\ ~has_success /\ ~has_delay
    THEN [intro |-> "Your message could not be delivered to the following recipients:",
          subject |-> "Failed to deliver message", is_mixed |-> FALSE]
    ELSE IF has_success
    THEN [intro |-> "Your message has been partially delivered:",
          subject |-> "Partially delivered message", is_mixed |-> TRUE]
    ELSE [intro |-> "Your message could not be delivered to some recipients:",
          subject |-> "Warning: Temporary and permanent failures during message delivery",
          is_mixed |-> TRUE]

HeadingSuccess == "    ----- Delivery to the following addresses was successful -----"
HeadingDelay == "    ----- There was a temporary problem delivering to these addresses -----"
HeadingFailure == "    ----- Delivery to the following addresses failed -----"

\* One section of the text part: its heading in a mixed report, the lines
\* and an empty line.
Section(has, is_mixed, heading, lines) ==
    IF has THEN (IF is_mixed THEN <<heading>> ELSE << >>) \o lines \o <<"">> ELSE << >>

\* build_dsn lines 160-222: None when no line was written, else the subject
\* and the lines of the text part.
build_text(txt_success, txt_delay, txt_failed) ==
    IF Len(txt_success) + Len(txt_delay) + Len(txt_failed) = 0 THEN [some |-> FALSE]
    ELSE LET has_success == txt_success # << >>
             has_delay == txt_delay # << >>
             has_failure == txt_failed # << >>
             s == Subject(has_success, has_delay, has_failure)
         IN [some |-> TRUE, subject |-> s.subject, is_mixed |-> s.is_mixed,
             txt |-> <<s.intro, "">>
                     \o Section(has_success, s.is_mixed, HeadingSuccess, txt_success)
                     \o Section(has_delay, s.is_mixed, HeadingDelay, txt_delay)
                     \o Section(has_failure, s.is_mixed, HeadingFailure, txt_failed)]

\* build_dsn assembles the text part for the lines of the recipients.
RenderText(assign) ==
    /\ dsnDoc' = [op |-> "text", assign |-> assign,
                  result |-> build_text(TxtOf(assign, "success", 1), TxtOf(assign, "delay", 1),
                                        TxtOf(assign, "failure", 1))]
    /\ DocFrame

\* "Fetch up to 1024 bytes of message headers": the window, scaled down.
HeaderWindow == 3
MaxMessageSize == 4

LF == 10
CR == 13
NUL == 0
\* The bytes a spooled message is made of: LF, CR, NUL, a letter and the
\* lead byte of a two-byte UTF-8 sequence.
MessageBytes == {LF, CR, NUL, 97, 195}
SpooledMessages == UNION {[1..n -> MessageBytes] : n \in 0..MaxMessageSize}

Min(a, b) == IF a <= b THEN a ELSE b

\* vec![0u8; n] after file.read returned br: the bytes read, then zeros.
ReadInto(file, n, br) ==
    [i \in 1..n |-> IF i <= br THEN file[i] ELSE NUL]

\* The loop that keeps on scanning to the end of the window.
RECURSIVE ScanLastLfWindow(_, _, _, _)
ScanLastLfWindow(buf, pos, prev_ch, last_lf) ==
    IF pos > Len(buf) THEN last_lf
    ELSE IF buf[pos] = LF THEN ScanLastLfWindow(buf, pos + 1, LF, pos)
    ELSE ScanLastLfWindow(buf, pos + 1, buf[pos], last_lf)

\* The loop over buf: last_lf after the byte at pos (counted from 1) and the
\* bytes behind it, stopping at a second LF in a row (CR apart) and at NUL.
RECURSIVE ScanLastLf(_, _, _, _)
ScanLastLf(buf, pos, prev_ch, last_lf) ==
    IF pos > Len(buf) THEN last_lf
    ELSE IF buf[pos] = LF
    THEN IF prev_ch # LF THEN ScanLastLf(buf, pos + 1, LF, pos) ELSE pos
    ELSE IF buf[pos] = CR THEN ScanLastLf(buf, pos + 1, prev_ch, last_lf)
    ELSE IF buf[pos] = NUL THEN last_lf
    ELSE ScanLastLf(buf, pos + 1, buf[pos], last_lf)

\* buf.truncate(len)
vec_truncate(buf, len) == IF len < Len(buf) THEN SubSeq(buf, 1, len) ELSE buf

\* String::from_utf8(buf).unwrap_or_default(), as bytes.
utf8_or_default(buf) == IF from_utf8(buf).ok THEN buf ELSE << >>

\* build_dsn lines 263-317: the original-message part. io tells whether
\* File::open and file.read succeed, br is what file.read returns.
fetch_headers(file, size, io, br) ==
    IF io # "ok" THEN << >>
    ELSE LET buf == ReadInto(file, Min(size, HeaderWindow), br)
             last_lf == ScanLastLf(buf, 1, 0, br)
         IN utf8_or_default(IF last_lf < HeaderWindow THEN vec_truncate(buf, last_lf) ELSE buf)

IoOutcomes == {"ok", "open_failed", "read_failed"}

\* What file.read may return for a buffer of n bytes of a file that holds
\* at least n: all of it, or a part.
ReadCounts(n) == IF n = 0 THEN {0} ELSE 1..n

\* build_dsn attaches the headers of the spooled message.
FetchHeaders(file, io, br) ==
    /\ dsnDoc' = [op |-> "headers", file |-> file, io |-> io, br |-> br,
                  result |-> fetch_headers(file, Len(file), io, br)]
    /\ DocFrame

\* SMTP replies: the reply code and the enhanced status code (esc), which
\* is 0.0.0 when the server sent none.
Response(code, esc) == [code |-> code, esc |-> esc]
ResponsesOf(kind) ==
    CASE kind = "Completed" -> {Response(250, <<2, 1, 5>>), Response(250, <<0, 0, 0>>)}
      [] kind = "TemporaryFailure" -> {Response(451, <<4, 5, 1>>), Response(451, <<0, 0, 0>>)}
      [] OTHER -> {Response(550, <<5, 1, 1>>), Response(550, <<0, 0, 0>>)}

\* Status::into_permanent
into_permanent(status) ==
    IF status.kind = "TemporaryFailure" THEN [status EXCEPT !.kind = "PermanentFailure"]
    ELSE status

\* The statuses of a recipient, Status<HostResponse<String>,
\* HostResponse<ErrorDetails>>: as the delivery records them, and after the
\* message expired (into_permanent).
RecordedRcptStatuses ==
    {[kind |-> "Scheduled"]}
        \cup UNION {{[kind |-> k, response |-> r, hostname |-> "mx.c"] : r \in ResponsesOf(k)} :
                        k \in {"Completed", "TemporaryFailure", "PermanentFailure"}}
RcptStatuses == RecordedRcptStatuses \cup {into_permanent(s) : s \in RecordedRcptStatuses}

\* queue::Error
ErrorsWithEntity == {"ConnectionError", "TlsError", "DaneError"}
ErrorsWithoutEntity == {"DnsError", "MtaStsError", "RateLimited", "ConcurrencyLimited", "Io"}
Errors(kind) ==
    {[type |-> "UnexpectedResponse", response |-> r, entity |-> "mx.c"] : r \in ResponsesOf(kind)}
        \cup {[type |-> e, entity |-> "mx.c"] : e \in ErrorsWithEntity}
        \cup {[type |-> e] : e \in ErrorsWithoutEntity}

\* The statuses of a domain, Status<(), Error>.
RecordedDomainStatuses ==
    {[kind |-> "Scheduled"], [kind |-> "Completed"]}
        \cup UNION {{[kind |-> k, err |-> e] : e \in Errors(k)} :
                        k \in {"TemporaryFailure", "PermanentFailure"}}
DomainStatuses == RecordedDomainStatuses \cup {into_permanent(s) : s \in RecordedDomainStatuses}

Field(name, value) == [name |-> name, value |-> value]

\* Recipient::write_dsn
rcpt_write_dsn(rcpt) ==
    (IF rcpt.orcpt # "" THEN <<Field("Original-Recipient", rcpt.orcpt)>> ELSE << >>)
        \o <<Field("Final-Recipient", rcpt.address)>>

\* Domain::write_dsn_will_retry_until
write_dsn_will_retry_until(domain, t) ==
    IF domain.expires > t THEN <<Field("Will-Retry-Until", domain.expires)>> ELSE << >>

\* Status::write_dsn_action
write_dsn_action(status) ==
    <<Field("Action", CASE status.kind = "Completed" -> "delivered"
                        [] status.kind = "PermanentFailure" -> "failed"
                        [] OTHER -> "delayed")>>

\* Response::write_dsn_status: the three numbers of the status.
response_write_dsn_status(response) ==
    IF response.esc[1] > 0 THEN response.esc
    ELSE <<response.code \div 100, (response.code \div 10) % 10, response.code % 10>>

\* Response::write_dsn_diagnostic
response_write_dsn_diagnostic(response) == <<Field("Diagnostic-Code", response.code)>>

\* Status<HostResponse<String>, HostResponse<ErrorDetails>>::write_dsn:
\* action, status, diagnostic, remote MTA.
rcpt_status_write_dsn(status) ==
    write_dsn_action(status)
        \o <<Field("Status", IF status.kind # "Scheduled"
                             THEN response_write_dsn_status(status.response) ELSE << >>)>>
        \o (IF status.kind \in {"PermanentFailure", "TemporaryFailure"}
            THEN response_write_dsn_diagnostic(status.response) ELSE << >>)
        \o <<Field("Remote-MTA", IF status.kind # "Scheduled" THEN status.hostname ELSE "")>>

\* Status<(), Error>::write_dsn_status
domain_write_dsn_status(status) ==
    IF status.kind \in {"PermanentFailure", "TemporaryFailure"}
    THEN <<Field("Status",
                 IF status.err.type = "UnexpectedResponse"
                 THEN response_write_dsn_status(status.err.response)
                 ELSE IF status.kind = "PermanentFailure" THEN <<5, 0, 0>> ELSE <<4, 0, 0>>)>>
    ELSE << >>

\* Status<(), Error>::write_dsn: action, status, diagnostic, remote MTA.
domain_status_write_dsn(status) ==
    write_dsn_action(status)
        \o domain_write_dsn_status(status)
        \o (IF /\ status.kind \in {"PermanentFailure", "TemporaryFailure"}
               /\ status.err.type = "UnexpectedResponse"
            THEN response_write_dsn_diagnostic(status.err.response) ELSE << >>)
        \o (IF /\ status.kind \in {"PermanentFailure", "TemporaryFailure"}
               /\ status.err.type \in {"UnexpectedResponse"} \cup ErrorsWithEntity
            THEN <<Field("Remote-MTA", status.err.entity)>> ELSE << >>)

BlankLine == Field("", "")
NoBlock == [from |-> "none", fields |-> << >>]

\* The recipient loop of build_dsn for one recipient that is not skipped:
\* what is appended to the message/delivery-status part, and whose status it
\* reports.
write_block(rcpt, domain, t) ==
    LET due == domain.notify_due <= t
        own(fields) == [from |-> "rcpt", fields |-> rcpt_write_dsn(rcpt) \o fields \o <<BlankLine>>]
        dom(fields) == [from |-> "domain", fields |-> rcpt_write_dsn(rcpt) \o fields \o <<BlankLine>>]
    IN CASE rcpt.status.kind = "Completed" ->
                IF RCPT_NOTIFY_SUCCESS \in rcpt.flags
                THEN own(rcpt_status_write_dsn(rcpt.status)) ELSE NoBlock
         [] rcpt.status.kind = "TemporaryFailure" ->
                IF due /\ RCPT_NOTIFY_DELAY \in rcpt.flags
                THEN own(rcpt_status_write_dsn(rcpt.status)
                            \o write_dsn_will_retry_until(domain, t))
                ELSE NoBlock
         [] rcpt.status.kind = "PermanentFailure" ->
                IF RCPT_NOTIFY_FAILURE \in rcpt.flags
                THEN own(rcpt_status_write_dsn(rcpt.status)) ELSE NoBlock
         [] OTHER ->
                CASE domain.status.kind = "PermanentFailure" ->
                        IF RCPT_NOTIFY_FAILURE \in rcpt.flags
                        THEN dom(domain_status_write_dsn(domain.status)) ELSE NoBlock
                  [] domain.status.kind \in {"TemporaryFailure", "Scheduled"} ->
                        IF due /\ RCPT_NOTIFY_DELAY \in rcpt.flags
                        THEN dom(domain_status_write_dsn(domain.status)
                                    \o write_dsn_will_retry_until(domain, t))
                        ELSE NoBlock
                  [] OTHER -> [from |-> "domain", fields |-> <<BlankLine>>]

\* The recipients and domains a block is written for: the time of the call
\* and a later time.
DocClock == <<1, 2>>
DocRcpts ==
    {[address |-> "y@c", orcpt |-> o, flags |-> f, status |-> st] :
        o \in {"", "rfc822;y@c"},
        f \in {{}, {RCPT_NOTIFY_SUCCESS, RCPT_NOTIFY_DELAY, RCPT_NOTIFY_FAILURE}},
        st \in RcptStatuses}
DocDomains ==
    {[domain |-> "c", status |-> st, expires |-> e, notify_due |-> d] :
        st \in DomainStatuses, e \in {DocClock[1], DocClock[2]}, d \in {DocClock[1], DocClock[2]}}

\* build_dsn writes the block of one recipient.
WriteBlock(rcpt, domain) ==
    /\ dsnDoc' = [op |-> "block", rcpt |-> rcpt, domain |-> domain,
                  result |-> write_block(rcpt, domain, DocClock[1])]
    /\ DocFrame

\* The part is handed on.
TakeDoc ==
    /\ dsnDoc # NoDoc
    /\ dsnDoc' = NoDoc
    /\ DocFrame

(***************************************************************************)
(* The Sieve query plugin (crates/smtp/src/scripts/plugins/query.rs)       *)
(***************************************************************************)

NoQuery == [op |-> "none"]
QueryInit == queryOut = NoQuery

\* Query strings, one character per element.
QueryStrings ==
    { << >>,
      <<"S", "E", "L", "E", "C", "T", " ", "a">>,
      <<"s", "e", "l", "e", "c", "t", " ", "a">>,
      <<"S", "e", "L", "e", "C", "t">>,
      <<"S", "E", "L", "E", "C">>,
      <<"S", "E", "L", "E", "C", "T", "E", "D", " ", "a">>,
      <<"s", "e", "l", "e", "c", "t", "x">>,
      <<" ", "S", "E", "L", "E", "C", "T", " ", "a">>,
      <<"\n", "s", "e", "l", "e", "c", "t", " ", "a">>,
      <<"U", "P", "D", "A", "T", "E", " ", "t">>,
      <<"I", "N", "S", "E", "R", "T">>,
      <<"a", " ", "S", "E", "L", "E", "C", "T">> }

\* u8::to_ascii_uppercase on the letters that occur.
to_ascii_uppercase(ch) ==
    CASE ch = "s" -> "S" [] ch = "e" -> "E" [] ch = "l" -> "L" [] ch = "c" -> "C"
      [] ch = "t" -> "T" [] ch = "x" -> "X" [] ch = "a" -> "A" [] OTHER -> ch

\* <[u8]>::eq_ignore_ascii_case
eq_ignore_ascii_case(a, b) ==
    /\ Len(a) = Len(b)
    /\ \A i \in DOMAIN a : to_ascii_uppercase(a[i]) = to_ascii_uppercase(b[i])

Select == <<"S", "E", "L", "E", "C", "T">>

\* exec, "Run query": query.as_bytes().get(..6).map_or(false, |q|
\* q.eq_ignore_ascii_case(b"SELECT"))
IsSelect(query) ==
    IF Len(query) >= Len(Select)
    THEN eq_ignore_ascii_case(SubSeq(query, 1, Len(Select)), Select)
    ELSE FALSE

\* The directories of the configuration and the names a script may pass.
SieveDirectories == {"sql"}
DirectoryNames == {"sql", "ldap"}

\* What the directory answers: to query, an error or the columns of the row
\* found; to lookup, an error or whether a row was found.
QueryAnswers ==
    {[ok |-> FALSE, columns |-> << >>]}
        \cup {[ok |-> TRUE, columns |-> c] :
                c \in {<< >>, <<"Null">>, <<"v">>, <<"v", "w">>, <<"Null", "v">>}}
LookupAnswers == {[ok |-> o, found |-> f] : o \in BOOLEAN, f \in BOOLEAN}

BoolVariable(b) == [kind |-> "bool", bool |-> b, values |-> << >>]

\* exec: the directory operation it ran ("none" when it contacted no
\* directory) and the Variable returned.
exec(directory, query, query_answer, lookup_answer) ==
    IF directory \notin SieveDirectories
    THEN [called |-> "none", result |-> BoolVariable(FALSE)]
    ELSE IF query = << >>
    THEN [called |-> "none", result |-> BoolVariable(FALSE)]
    ELSE IF IsSelect(query)
    THEN [called |-> "query",
          result |->
            IF query_answer.ok
            THEN CASE Len(query_answer.columns) = 1 /\ query_answer.columns[1] # "Null" ->
                        [kind |-> "value", bool |-> FALSE, values |-> query_answer.columns]
                   [] Len(query_answer.columns) = 0 ->
                        [kind |-> "default", bool |-> FALSE, values |-> << >>]
                   [] OTHER ->
                        [kind |-> "array", bool |-> FALSE, values |-> query_answer.columns]
            ELSE BoolVariable(FALSE)]
    ELSE [called |-> "lookup", result |-> BoolVariable(lookup_answer.ok)]

\* A Sieve script calls query(directory, query, arguments).
Exec(directory, query, query_answer, lookup_answer) ==
    /\ queryOut' = [op |-> "exec", directory |-> directory, query |-> query,
                    query_answer |-> query_answer, lookup_answer |-> lookup_answer,
                    out |-> exec(directory, query, query_answer, lookup_answer)]
    /\ QueryFrame

\* The script goes on with the value.
TakeQuery ==
    /\ queryOut # NoQuery
    /\ queryOut' = NoQuery
    /\ QueryFrame

QueryNext ==
    \/ /\ queryOut = NoQuery
       /\ \E directory \in DirectoryNames : \E query \in QueryStrings :
            \E query_answer \in QueryAnswers : \E lookup_answer \in LookupAnswers :
                Exec(directory, query, query_answer, lookup_answer)
    \/ TakeQuery

(***************************************************************************)
(* Body parts of an email (crates/jmap/src/email/body.rs)                  *)
(***************************************************************************)

NoBody == [op |-> "none"]

\* The largest underlying blob, in bytes.
MaxUnderlying == 3

\* A BlobId: its variant and, when it names a sub-range, the section.
NoSection == [some |-> FALSE, start_offset |-> 0, end_offset |-> 0, encoding |-> 0]
BlobIdOf(kind, section) == [kind |-> kind, section |-> section]

\* BlobId::start_offset: where the bytes the BlobId names start in the
\* underlying blob.
start_offset_zero(blob_id) == 0
start_offset(blob_id) == IF blob_id.section.some THEN blob_id.section.start_offset ELSE 0

\* BlobId::new_section
new_section(kind, offset_start, offset_end, encoding) ==
    BlobIdOf(kind, [some |-> TRUE, start_offset |-> offset_start, end_offset |-> offset_end,
                    encoding |-> encoding])

\* The ranges start..end inside len bytes.
Ranges(len) == {r \in (0..len) \X (0..len) : r[1] <= r[2]}

\* The BlobIds of a message stored in a blob of `size` bytes: the blob
\* itself, or a section of it (a message attached to a message).
MessageBlobIds(size) ==
    {BlobIdOf("LinkedMaildir", NoSection)}
        \cup {new_section("LinkedMaildir", r[1], r[2], 0) : r \in Ranges(size)}

\* The number of bytes a BlobId of a blob of `size` bytes names: the
\* raw_message handed to the parser.
RawLen(blob_id, size) ==
    IF blob_id.section.some
    THEN blob_id.section.end_offset - blob_id.section.start_offset ELSE size

\* A MessagePart as the parser returns it: the ids of its parts when it is
\* multipart, where its body starts and ends in raw_message, the transfer
\* encoding and the length of the decoded body.
Leaf(offset_body, offset_end, encoding) ==
    [multipart |-> FALSE, parts |-> << >>, offset_body |-> offset_body,
     offset_end |-> offset_end, encoding |-> encoding, len |-> offset_end - offset_body]
Multipart(parts, len) ==
    [multipart |-> TRUE, parts |-> parts, offset_body |-> 0, offset_end |-> len,
     encoding |-> 0, len |-> 0]
Encodings == {0, 2}
Leaves(len) ==
    {Leaf(r[1], r[2], e) : r \in Ranges(len), e \in Encodings}

\* The parsed messages of raw_message of `len` bytes: part ids count from 0,
\* part 0 is the root.
ParsedMessages(len) ==
    {<<l>> : l \in Leaves(len)}
        \cup {<<Multipart(<< >>, len)>>}
        \cup {<<Multipart(<<1>>, len), l>> : l \in Leaves(len)}
        \cup {<<Multipart(<<1, 2>>, len), l, m>> : l \in Leaves(len), m \in Leaves(len)}
        \cup {<<Multipart(<<1>>, len), Multipart(<<2>>, len), l>> : l \in Leaves(len)}

PropertyChoices ==
    {<<"partId", "blobId", "size", "subParts", "id">>, <<"blobId">>, <<"size", "partId">>}

Null == [kind |-> "null"]
\* usize::to_string for the part ids that occur
to_string(n) == <<"0", "1", "2", "3">>[n + 1]

\* to_body_part: the value of one property of one part.
PartProperty(part, part_id, property, blob_id) ==
    CASE property = "partId" /\ ~part.multipart -> [kind |-> "string", string |-> to_string(part_id)]
      [] property = "blobId" /\ ~part.multipart ->
            [kind |-> "blobId",
             blobId |-> new_section(blob_id.kind, part.offset_body + start_offset(blob_id),
                                    part.offset_end + start_offset(blob_id), part.encoding)]
      [] property = "size" /\ ~part.multipart -> [kind |-> "uint", uint |-> part.len]
      [] OTHER -> Null

\* to_body_part: the loop over the parts with its stack, which visits the
\* part, then the parts of a multipart, and appends their values as subParts.
RECURSIVE to_body_part(_, _, _, _)
to_body_part(self, part_id, properties, blob_id) ==
    LET part == self[part_id + 1]
        wanted == SelectSeq(properties, LAMBDA property : property # "subParts")
        values == [i \in DOMAIN wanted |->
                     [property |-> wanted[i],
                      value |-> PartProperty(part, part_id, wanted[i], blob_id)]]
    IN [part_id |-> part_id,
        values |-> values,
        subParts |-> IF part.multipart
                     THEN [i \in DOMAIN part.parts |->
                              to_body_part(self, part.parts[i], properties, blob_id)]
                     ELSE << >>]

\* Email/get converts the body structure of a message.
ToBodyPart(size, blob_id, self, properties) ==
    /\ bodyOut' = [op |-> "to_body_part", size |-> size, blob_id |-> blob_id, self |-> self,
                   properties |-> properties,
                   result |-> to_body_part(self, 0, properties, blob_id)]
    /\ BodyFrame

\* Text of a body part, one char per element; "é" stands for the chars of
\* two bytes. Contents are made of at most MaxPieces pieces and truncated to
\* at most MaxTruncate bytes.
MaxPieces == 4
MaxTruncate == 8
Pieces ==
    {<<"a">>, <<"\r">>, <<"é">>, <<"<", "b", ">">>, <<"<", "!", "-", "-">>, <<"-", "-", ">">>}
RECURSIVE Contents(_)
Contents(n) ==
    IF n = 0 THEN {<< >>}
    ELSE Contents(n - 1) \cup {c \o piece : c \in Contents(n - 1), piece \in Pieces}

\* char::len_utf8
len_utf8(ch) == IF ch = "é" THEN 2 ELSE 1

\* str::len: the length in bytes.
RECURSIVE str_len(_)
str_len(str) == IF str = << >> THEN 0 ELSE len_utf8(str[1]) + str_len(Tail(str))

\* str::replace('\r', "")
replace_cr(str) == SelectSeq(str, LAMBDA ch : ch # "\r")

\* str::char_indices: the byte position of the i-th char.
char_index(str, i) == str_len(SubSeq(str, 1, i - 1))

\* &str[0..to] for a byte position that is a char boundary.
str_upto(str, to) ==
    LET I == {i \in DOMAIN str : char_index(str, i) < to}
    IN SubSeq(str, 1, Cardinality(I))

\* str::get(from..to) == Some(lit) for a literal of one-byte chars: the
\* range is inside the string, on char boundaries, and holds the literal.
get_is(str, from, to, lit) ==
    /\ from >= 0 /\ from <= to /\ to <= str_len(str)
    /\ \E i \in DOMAIN str :
        /\ char_index(str, i) = from
        /\ i + Len(lit) - 1 <= Len(str)
        /\ SubSeq(str, i, i + Len(lit) - 1) = lit

Dots == <<".", ".", ".">>

\* truncate, PartType::Text: the loop that pushes the chars that fit.
RECURSIVE push_chars(_, _, _)
push_chars(text, result, max_len) ==
    IF text = << >> THEN result
    ELSE IF text[1] = "\r" THEN push_chars(Tail(text), result, max_len)
    ELSE IF len_utf8(text[1]) + str_len(result) > max_len THEN result
    ELSE push_chars(Tail(text), Append(result, text[1]), max_len)

\* TruncateBody::truncate for PartType::Text
truncate_text(text, max_len) ==
    IF max_len # 0 /\ str_len(text) > max_len
    THEN LET add_dots == max_len > 6
             limit == IF add_dots THEN max_len - 3 ELSE max_len
         IN [truncated |-> TRUE,
             text |-> push_chars(text, << >>, limit) \o (IF add_dots THEN Dots ELSE << >>)]
    ELSE [truncated |-> FALSE, text |-> replace_cr(text)]

\* truncate, PartType::Html: the loop over char_indices from the i-th char
\* on; st holds in_tag, in_comment, last_tag_end_pos and cr_count. The
\* result stays empty when the loop ends without a break.
RECURSIVE scan_html(_, _, _, _, _)
scan_html(html, i, st, max_len, add_dots) ==
    IF i > Len(html) THEN << >>
    ELSE
    LET ch == html[i]
        pos == char_index(html, i)
        opens == ch = "<" /\ ~st.in_tag
        closes == ch = ">" /\ st.in_tag
        ends_comment == closes /\ st.in_comment /\ get_is(html, pos - 2, pos, <<"-", "-">>)
        in_tag == IF opens THEN TRUE
                  ELSE IF closes /\ (~st.in_comment \/ ends_comment) THEN FALSE
                  ELSE st.in_tag
        in_comment == IF opens /\ get_is(html, pos + 1, pos + 4, <<"!", "-", "-">>) THEN TRUE
                      ELSE IF ends_comment THEN FALSE
                      ELSE st.in_comment
        set_last_tag == IF opens THEN pos
                        ELSE IF closes /\ (~st.in_comment \/ ends_comment) THEN pos + 1
                        ELSE 0
    IN IF ch = "\r"
       THEN scan_html(html, i + 1, [st EXCEPT !.cr_count = @ + 1], max_len, add_dots)
       ELSE IF len_utf8(ch) + pos - st.cr_count > max_len
       THEN replace_cr(str_upto(html, IF (in_tag \/ set_last_tag > 0) /\ st.last_tag_end_pos > 0
                                      THEN st.last_tag_end_pos ELSE pos))
                \o (IF add_dots THEN Dots ELSE << >>)
       ELSE scan_html(html, i + 1,
                      [in_tag |-> in_tag, in_comment |-> in_comment,
                       last_tag_end_pos |-> IF set_last_tag > 0 THEN set_last_tag
                                            ELSE st.last_tag_end_pos,
                       cr_count |-> st.cr_count],
                      max_len, add_dots)

\* TruncateBody::truncate for PartType::Html
truncate_html(html, max_len) ==
    IF max_len # 0 /\ str_len(html) > max_len
    THEN LET add_dots == max_len > 6
             limit == IF add_dots THEN max_len - 3 ELSE max_len
         IN [truncated |-> TRUE,
             text |-> scan_html(html, 1,
                                [in_tag |-> FALSE, in_comment |-> FALSE,
                                 last_tag_end_pos |-> 0, cr_count |-> 0],
                                limit, add_dots)]
    ELSE [truncated |-> FALSE, text |-> replace_cr(html)]

\* Email/get truncates a body value to maxBodyValueBytes.
Truncate(type, content, max_len) ==
    /\ bodyOut' = [op |-> "truncate", type |-> type, content |-> content, max_len |-> max_len,
                   result |-> IF type = "Text" THEN truncate_text(content, max_len)
                              ELSE truncate_html(content, max_len)]
    /\ BodyFrame

\* The response is sent.
TakeBody ==
    /\ bodyOut # NoBody
    /\ bodyOut' = NoBody
    /\ BodyFrame

BodyInit == bodyOut = NoBody
DocIdle == DocInit /\ QueryInit /\ BodyInit

\* The parts of DSNs, for every combination of lines, every spooled message
\* and every recipient and domain status.
DocNext ==
    \/ /\ dsnDoc = NoDoc
       /\ \E assign \in [1..Len(DocAddresses) -> Categories] : RenderText(assign)
    \/ /\ dsnDoc = NoDoc
       /\ \E file \in SpooledMessages : \E io \in IoOutcomes :
            \E br \in ReadCounts(Min(Len(file), HeaderWindow)) : FetchHeaders(file, io, br)
    \/ /\ dsnDoc = NoDoc
       /\ \E rcpt \in DocRcpts : \E domain \in DocDomains : WriteBlock(rcpt, domain)
    \/ TakeDoc

BodyNext ==
    \/ /\ bodyOut = NoBody
       /\ \E size \in 0..MaxUnderlying : \E blob_id \in MessageBlobIds(size) :
            \E self \in ParsedMessages(RawLen(blob_id, size)) :
                \E properties \in PropertyChoices : ToBodyPart(size, blob_id, self, properties)
    \/ /\ bodyOut = NoBody
       /\ \E type \in {"Text", "Html"} : \E content \in Contents(MaxPieces) :
            \E max_len \in 0..MaxTruncate : Truncate(type, content, max_len)
    \/ TakeBody

(***************************************************************************)
(* Specifications                                                          *)
(***************************************************************************)

InitChanges == ChInit /\ DsnIdle /\ EmIdle /\ AclIdle /\ BlobIdle /\ OAuthIdle /\ AuthIdle /\ DocIdle
NextChanges == ChNext
SpecChanges == InitChanges /\ [][NextChanges]_vars

InitDsn == DsnInit /\ ChIdle /\ EmIdle /\ AclIdle /\ BlobIdle /\ OAuthIdle /\ AuthIdle /\ DocIdle
NextDsn == DsnNext
SpecDsn == InitDsn /\ [][NextDsn]_vars

InitEmail == EmInit /\ ChIdle /\ DsnIdle /\ AclIdle /\ BlobIdle /\ OAuthIdle /\ AuthIdle /\ DocIdle
NextEmail == EmNext
SpecEmail == InitEmail /\ [][NextEmail]_vars

InitAcl == AclInit /\ ChIdle /\ DsnIdle /\ EmIdle /\ BlobIdle /\ OAuthIdle /\ AuthIdle /\ DocIdle
NextAcl == AclNext
SpecAcl == InitAcl /\ [][NextAcl]_vars

InitGroup == AclInit /\ ChIdle /\ DsnIdle /\ EmIdle /\ BlobIdle /\ OAuthIdle /\ AuthIdle /\ DocIdle
NextGroup == GroupNext
SpecGroup == InitGroup /\ [][NextGroup]_vars

InitToken == AclInit /\ ChIdle /\ DsnIdle /\ EmIdle /\ BlobIdle /\ OAuthIdle /\ AuthIdle /\ DocIdle
NextToken == TokenNext
SpecToken == InitToken /\ [][NextToken]_vars

InitCopy == AclInit /\ ChIdle /\ DsnIdle /\ EmIdle /\ BlobIdle /\ OAuthIdle /\ AuthIdle /\ DocIdle
NextCopy == CopyNext
SpecCopy == InitCopy /\ [][NextCopy]_vars

InitLookup == LookupInit /\ ChIdle /\ DsnIdle /\ EmIdle /\ AclIdle /\ OAuthIdle /\ AuthIdle /\ DocIdle
NextLookup == LookupNext
SpecLookup == InitLookup /\ [][NextLookup]_vars

InitGet == GetInit /\ ChIdle /\ DsnIdle /\ EmIdle /\ AclIdle /\ OAuthIdle /\ AuthIdle /\ DocIdle
NextGet == GetNext
SpecGet == InitGet /\ [][NextGet]_vars

InitUpload == UploadInit /\ ChIdle /\ DsnIdle /\ EmIdle /\ AclIdle /\ OAuthIdle /\ AuthIdle /\ DocIdle
NextUpload == UploadNext
SpecUpload == InitUpload /\ [][NextUpload]_vars

InitOAuth == OAuthInit /\ ChIdle /\ DsnIdle /\ EmIdle /\ AclIdle /\ BlobIdle /\ AuthIdle /\ DocIdle
NextOAuth == OAuthNext
SpecOAuth == InitOAuth /\ [][NextOAuth]_vars

InitDoc == DocIdle /\ ChIdle /\ DsnIdle /\ EmIdle /\ AclIdle /\ BlobIdle /\ OAuthIdle /\ AuthIdle
NextDoc == DocNext
SpecDoc == InitDoc /\ [][NextDoc]_vars

InitQuery == DocIdle /\ ChIdle /\ DsnIdle /\ EmIdle /\ AclIdle /\ BlobIdle /\ OAuthIdle /\ AuthIdle
NextQuery == QueryNext
SpecQuery == InitQuery /\ [][NextQuery]_vars

InitBody == DocIdle /\ ChIdle /\ DsnIdle /\ EmIdle /\ AclIdle /\ BlobIdle /\ OAuthIdle /\ AuthIdle
NextBody == BodyNext
SpecBody == InitBody /\ [][NextBody]_vars

InitAuth == AuthInit /\ ChIdle /\ DsnIdle /\ EmIdle /\ AclIdle /\ BlobIdle /\ OAuthIdle /\ DocIdle
NextAuth == AuthNext
SpecAuth == InitAuth /\ [][NextAuth]_vars

(***************************************************************************)
(* Claims                                                                  *)
(***************************************************************************)

SeqRange(s) == {s[i] : i \in DOMAIN s}
SetMax(S) == CHOOSE x \in S : \A y \in S : y <= x

\* C1: delta sync is complete: no record is committed with a change id less
\* than or equal to a state token that was returned to a client before it
\* (the i-th token of an account is returned by its i-th commit).
ChDeltaSyncComplete ==
    \A a \in ChAccounts : \A j \in DOMAIN log[a] : \A i \in DOMAIN returned[a] :
        i < j => log[a][j] > returned[a][i]

\* C2: per account the change ids of the committed records are pairwise
\* distinct and strictly increasing in commit order.
ChStrictlyIncreasing ==
    \A a \in ChAccounts :
        /\ Cardinality(SeqRange(log[a])) = Len(log[a])
        /\ \A i \in DOMAIN log[a] : i > 1 => log[a][i - 1] < log[a][i]

\* C3: a failed commit consumes no id: once no builder is open, every id
\* handed out by assign_change_id below the largest committed id of the
\* account belongs to a committed record.
ChNoGaps ==
    (\A t \in Tasks : builders[t].pc = "none") =>
        \A a \in ChAccounts : \A id \in 1..counter[a] :
            (log[a] # << >> /\ id < SetMax(SeqRange(log[a]))) => id \in SeqRange(log[a])

Flags(msg, r) == msg.recipients[r].flags
SameMessage == Len(queue') >= Len(queue)

\* C4: once a recipient has DSN_SENT it keeps the flag, and no later send_dsn /
\* build_dsn on the message writes a line or a per-recipient block for it.
DsnSentNeverReportedAgain ==
    [][SameMessage =>
        \A r \in DOMAIN message.recipients :
            RCPT_DSN_SENT \in Flags(message, r) =>
                /\ RCPT_DSN_SENT \in Flags(message', r)
                /\ dsnOut'.op \in {"dsn", "no_dsn"} => dsnOut'.lines[r].cat = "none"]_vars

\* C4 witness: a DSN was built while a delivered recipient that asked for a
\* success notification already carried DSN_SENT from an earlier DSN: it is
\* skipped, another recipient is reported.
DsnSentSkippedWitness ==
    /\ dsnOut.op = "dsn"
    /\ Len(queue) = 2
    /\ \E r \in DOMAIN message.recipients :
        /\ message.recipients[r].status = "Completed"
        /\ {RCPT_DSN_SENT, RCPT_NOTIFY_SUCCESS} \subseteq Flags(message, r)
        /\ RCPT_NOTIFY_NEVER \notin Flags(message, r)
        /\ dsnOut.lines[r].cat = "none"

\* C5: every DSN send_dsn queues is a new message with an empty return path
\* whose only recipient is the return path of the reported message, and
\* send_dsn on a message with an empty return path (a DSN) queues nothing.
DsnNeverLoops ==
    [][/\ Len(queue') > Len(queue) =>
            LET q == queue'[Len(queue')] IN
            /\ message.return_path # ""
            /\ q.return_path = ""
            /\ Len(q.recipients) = 1
            /\ q.recipients[1].address = message.return_path
       /\ message.return_path = "" => Len(queue') <= Len(queue)]_vars

\* C5 witness: the message under delivery is a queued DSN (addressed to the
\* sender), it failed permanently, send_dsn ran on it and the queue is empty.
DsnOfDsnWitness ==
    /\ message.return_path = ""
    /\ Len(message.recipients) = 1
    /\ message.recipients[1].address = "sender@a"
    /\ dsnOut.op = "double_bounce"
    /\ dsnOut.bounced = {1}
    /\ queue = << >>

PermanentlyFailed(msg, r) ==
    \/ msg.recipients[r].status = "PermanentFailure"
    \/ /\ msg.recipients[r].status = "Scheduled"
       /\ msg.domains[msg.recipients[r].domain_idx].status = "PermanentFailure"

Unflagged(msg, r) ==
    /\ RCPT_DSN_SENT \notin Flags(msg, r)
    /\ RCPT_NOTIFY_NEVER \notin Flags(msg, r)

\* What C6 says of the recipients and of the queue in a send_dsn step on a
\* message with an empty return path.
DoubleBounceRecipients ==
    /\ dsnOut'.op = "double_bounce"
    /\ queue' = queue
    /\ \A r \in DOMAIN message.recipients :
        IF PermanentlyFailed(message, r) /\ Unflagged(message, r)
        THEN /\ Flags(message', r) = Flags(message, r) \cup {RCPT_DSN_SENT}
             /\ r \in dsnOut'.bounced
        ELSE /\ Flags(message', r) = Flags(message, r)
             /\ r \notin dsnOut'.bounced

\* C6 as stated: send_dsn on a message with an empty return path builds and
\* queues nothing, pushes every domain's notify deadline to expires + 10s and
\* marks and logs every permanently failed, unflagged recipient.
DoubleBounceEveryDomainPushed ==
    [][(message.return_path = "" /\ dsnOut'.op # "none") =>
        /\ DoubleBounceRecipients
        /\ \A d \in DOMAIN message.domains :
            message'.domains[d].notify.due = message.domains[d].expires + PastExpiry]_vars

\* C6 as amended: only the domains whose notify deadline is due
\* (notify.due <= now) are pushed to expires + 10s; the others keep theirs.
DoubleBounceDueDomainsPushed ==
    [][(message.return_path = "" /\ dsnOut'.op # "none") =>
        /\ DoubleBounceRecipients
        /\ \A d \in DOMAIN message.domains :
            message'.domains[d].notify.due =
                IF message.domains[d].notify.due <= now
                THEN message.domains[d].expires + PastExpiry
                ELSE message.domains[d].notify.due]_vars

\* C6 witness: a double bounce was handled, it logged both kinds of
\* permanently failed recipient, a due deadline was pushed past expiry.
DoubleBounceWitness ==
    /\ message.return_path = ""
    /\ dsnOut.op = "double_bounce"
    /\ \E r \in dsnOut.bounced : message.recipients[r].status = "PermanentFailure"
    /\ \E r \in dsnOut.bounced : message.recipients[r].status = "Scheduled"
    /\ \E d \in DOMAIN message.domains :
        message.domains[d].notify.due = message.domains[d].expires + PastExpiry

\* C7: in every state reached by interleaved import / move / destroy requests,
\* every surviving email has exactly one mailbox in MailboxIds, exactly that
\* mailbox's tag index contains it, and no tag index holds a destroyed email.
EmailTagsConsistent ==
    /\ \A id \in emDocs :
        /\ Cardinality(emProp[id]) = 1
        /\ \A m \in StressMailboxes : id \in emTags[m] <=> m \in emProp[id]
    /\ \A m \in StressMailboxes : emTags[m] \subseteq emDocs

\* C7 witness: a write lost the race (its assertion no longer holds) while
\* the email it read in "s1" now lives in another mailbox.
EmailRaceWitness ==
    \E t \in Tasks :
        /\ emTask[t].pc = "write"
        /\ emTask[t].op = "move"
        /\ emTask[t].seen = {"s1"}
        /\ emTask[t].id \in emDocs
        /\ emProp[emTask[t].id] = {"s2"}
        /\ emTask[t].target = "s3"


\* ---- ACL engine

\* The rights the claim names for each operation.
ClaimedRights(op) ==
    CASE op = "Mailbox/get" -> {ACL_Read}
      [] op = "Email/get" -> {ACL_ReadItems}
      [] op = "Email/query" -> {ACL_ReadItems}
      [] op = "Email/import" -> {ACL_AddItems}
      [] op = "Email/copy" -> {ACL_AddItems}
      [] op = "Email/move" -> {ACL_AddItems}
      [] op = "Email/destroy" -> {ACL_RemoveItems}
      [] op = "Email/keyword" -> {ACL_ModifyItems}
      [] op = "Mailbox/create" -> {ACL_CreateChild}
      [] op = "Mailbox/rename" -> {ACL_Modify}
      [] op = "Mailbox/destroy" -> {ACL_Delete, ACL_RemoveItems}
      [] op = "Mailbox/acl/get" -> {ACL_Administer}
      [] op = "Mailbox/acl/set" -> {ACL_Administer}

\* The operations of the claim that address one mailbox.
MailboxOps ==
    {"Mailbox/get", "Email/get", "Email/import", "Email/copy", "Email/move",
     "Email/destroy", "Email/keyword", "Mailbox/create", "Mailbox/rename",
     "Mailbox/destroy", "Mailbox/acl/get", "Mailbox/acl/set"}

\* Some mailbox of Jane's account grants g ReadItems.
ReadsSomeMailbox(g) == \E m \in SharedMailboxes : ACL_ReadItems \in acl[m][g]

\* The last request is g's Email/get of an email of mailbox m.
GotEmailOf(g, m) ==
    lastReq.who = g /\ lastReq.op = "Email/get" /\ lastReq.mailbox = m

\* The last request is g's Email/get of an email that lies in mailbox m only.
GotEmailOnlyOf(g, m) ==
    GotEmailOf(g, m) /\ EmailMailboxes(lastReq.email) \subseteq {m}

\* C8 as stated: after a Mailbox/set removed all rights of a grantee on a
\* mailbox, every read by the grantee of an email of that mailbox returns
\* Forbidden and the grantee's session no longer lists the owner's account,
\* while the other grantees of the mailbox still read its emails.
AclRevokedReadForbidden ==
    \A x \in revoked :
        /\ GotEmailOf(x[2], x[1]) => lastReq.result = "Forbidden"
        /\ (lastReq.who = x[2] /\ lastReq.op = "Session") => "jane" \notin lastReq.listed
        /\ \A g \in Grantees \ {x[2]} :
              (/\ GotEmailOf(g, x[1])
               /\ ACL_ReadItems \in acl[x[1]][g]
               /\ lastReq.email \in acData.emails) => lastReq.result = "ok"

\* C8 amended: after a Mailbox/set removed all rights of a grantee on a
\* mailbox, no read by the grantee of an email that lies only in that
\* mailbox returns the email: it returns Forbidden when no mailbox of the
\* owner's account grants the grantee ReadItems any more and no object when
\* another one does; the grantee's session lists the owner's account exactly
\* in the latter case; the other grantees of the mailbox still read its
\* emails.
AclRevocationEffective ==
    \A x \in revoked :
        /\ GotEmailOnlyOf(x[2], x[1]) =>
              /\ lastReq.result # "ok"
              /\ lastReq.result = "Forbidden" <=> ~ReadsSomeMailbox(x[2])
        /\ (lastReq.who = x[2] /\ lastReq.op = "Session") =>
              ("jane" \in lastReq.listed <=> ReadsSomeMailbox(x[2]))
        /\ \A g \in Grantees \ {x[2]} :
              (/\ GotEmailOf(g, x[1])
               /\ ACL_ReadItems \in acl[x[1]][g]
               /\ lastReq.email \in acData.emails) => lastReq.result = "ok"

\* Jane revoked John's rights on her Inbox, Bill still holds his, and John's
\* Email/get of an Inbox email was answered Forbidden.
AclRevokedWitness ==
    /\ <<"inbox", "john">> \in revoked
    /\ acl["inbox"]["bill"] # {}
    /\ GotEmailOf("john", "inbox")
    /\ lastReq.result = "Forbidden"

\* C9: a principal reads an email of the group's Inbox exactly when its
\* access token lists the group: the read is answered with the email or with
\* Forbidden, with the email iff the token used is a member of the group; a
\* token built for the request lists the group only for a member of the
\* group, so a non-member (never added, or removed) whose caches were
\* cleared gets Forbidden, and a member gets the email.
GroupReadFollowsToken ==
    (/\ lastReq.op = "Email/get"
     /\ lastReq.account = Group
     /\ lastReq.email \in acData.emails) =>
        /\ lastReq.result \in {"ok", "Forbidden"}
        /\ lastReq.result = "ok" <=> Group \in tokens[lastReq.who].member_of
        /\ lastReq.fresh =>
              /\ lastReq.who \notin members => lastReq.result = "Forbidden"
              /\ (lastReq.who \in members /\ lastReq.dir) => lastReq.result = "ok"

\* John imported an email into the group's Inbox as a member, was removed
\* from the group, the caches were cleared and his read of that email was
\* answered Forbidden.
GroupRemovedWitness ==
    /\ "e5" \in acData.emails
    /\ "john" \notin members
    /\ lastReq.who = "john"
    /\ lastReq.op = "Email/get"
    /\ lastReq.email = "e5"
    /\ lastReq.fresh
    /\ lastReq.result = "Forbidden"

\* A grantee's request on Jane's account.
GranteeRequest == lastReq.who \in Grantees /\ lastReq.account = "jane"

\* C10 as stated: an operation of a grantee on a mailbox of another account
\* succeeds only with the rights the claim names, and without them it is
\* answered Forbidden and changes nothing.
SharedOpsForbiddenWithoutRights ==
    (/\ GranteeRequest
     /\ lastReq.op \in MailboxOps
     /\ lastReq.email \in acData.emails \cup {"none"}
     /\ ~(ClaimedRights(lastReq.op) \subseteq lastReq.rights)) =>
        lastReq.result = "Forbidden" /\ ~lastReq.changed

\* C10 amended: an operation of a grantee on a mailbox of another account
\* succeeds only with the rights the claim names; without them it changes
\* nothing and is answered Forbidden, except that an Email/get of an email
\* of a mailbox without ReadItems is answered with no object when another
\* mailbox of the account grants the grantee ReadItems, and an Email/query
\* then lists only the emails of the mailboxes that grant ReadItems.
SharedOpsRequireRights ==
    GranteeRequest =>
        /\ (lastReq.op \in MailboxOps /\ lastReq.result = "ok") =>
              ClaimedRights(lastReq.op) \subseteq lastReq.rights
        /\ (lastReq.op = "Email/query" /\ lastReq.result = "ok") =>
              \A e \in lastReq.listed :
                  \E m \in EmailMailboxes(e) : ACL_ReadItems \in acl[m][lastReq.who]
        /\ (/\ lastReq.op \in MailboxOps
            /\ lastReq.email \in acData.emails \cup {"none"}
            /\ ~(ClaimedRights(lastReq.op) \subseteq lastReq.rights)) =>
              /\ ~lastReq.changed
              /\ lastReq.result # "ok"
              /\ lastReq.result # "Forbidden" =>
                    /\ lastReq.op = "Email/get"
                    /\ lastReq.result = "none"
                    /\ ReadsSomeMailbox(lastReq.who)
        /\ (lastReq.op = "Email/query" /\ lastReq.result # "ok") =>
              /\ lastReq.result = "Forbidden"
              /\ ~ReadsSomeMailbox(lastReq.who)

\* John holds every right on Jane's Inbox but RemoveItems, and his
\* Mailbox/destroy of the Inbox, which holds the email he imported, was
\* answered Forbidden.
SharedOpsWitness ==
    /\ GranteeRequest
    /\ lastReq.op = "Mailbox/destroy"
    /\ lastReq.rights = AllRights \ {ACL_RemoveItems}
    /\ lastReq.result = "Forbidden"
    /\ "e3" \in acData.emails

\* The ACL of one of the mailboxes of email e grants g ReadItems.
GrantsReadItems(g, e) ==
    \E m \in EmailMailboxes(e) : ACL_ReadItems \in acl[m][g]

\* C11: on Jane's account an email is visible to a grantee exactly when one
\* of its mailboxes grants the grantee ReadItems: Email/get returns an
\* existing email iff one of its mailboxes grants ReadItems, and no object
\* for an email lying only in mailboxes without ReadItems when the account is
\* shared with the grantee; Email/query lists exactly the visible emails.
ReadVisibility ==
    GranteeRequest =>
        /\ (lastReq.op = "Email/get" /\ lastReq.email \in acData.emails) =>
              /\ lastReq.result = "ok" <=> GrantsReadItems(lastReq.who, lastReq.email)
              /\ (~GrantsReadItems(lastReq.who, lastReq.email)
                      /\ ReadsSomeMailbox(lastReq.who)) => lastReq.result = "none"
        /\ (lastReq.op = "Email/query" /\ lastReq.result = "ok") =>
              lastReq.listed =
                  {e \in acData.emails : /\ MailboxAccount[EmailHome[e]] = "jane"
                                         /\ GrantsReadItems(lastReq.who, e)}
        /\ (lastReq.op = "Email/query" /\ ReadsSomeMailbox(lastReq.who)) =>
              lastReq.result = "ok"

\* John holds ReadItems on Jane's Inbox and not on her Trash, and his
\* Email/get of the email that lies in both was answered with the email.
ReadVisibilityWitness ==
    /\ GranteeRequest
    /\ lastReq.who = "john"
    /\ lastReq.op = "Email/get"
    /\ lastReq.email = "e6"
    /\ ACL_ReadItems \notin acl["trash"]["john"]
    /\ lastReq.result = "ok"

\* The copy source of the last request lies in a mailbox that grants the
\* requester ReadItems, or in an account its token is a member of.
CopySourceGranted ==
    \/ GrantsReadItems(lastReq.who, lastReq.email)
    \/ MailboxAccount[EmailHome[lastReq.email]] \in tokens[lastReq.who].member_of

\* The copy destination of the last request grants the requester AddItems:
\* its own account, a mailbox whose ACL grants AddItems, or the mailbox of an
\* account its token is a member of.
CopyDestinationGranted ==
    \/ lastReq.account = lastReq.who
    \/ /\ lastReq.mailbox \in Mailboxes
       /\ \/ ACL_AddItems \in Granted(lastReq.who, lastReq.mailbox)
          \/ lastReq.account \in tokens[lastReq.who].member_of

\* C12: a Blob/copy or Email/copy between accounts succeeds only when the
\* source email lies in a mailbox the principal reads (ReadItems) and the
\* destination grants AddItems, and is answered Forbidden, with nothing
\* copied, when either is missing.
CopyRequiresBoth ==
    lastReq.op \in {"Blob/copy", "Email/copy"} =>
        /\ lastReq.result = "ok" => CopySourceGranted /\ CopyDestinationGranted
        /\ ~(CopySourceGranted /\ CopyDestinationGranted) =>
              lastReq.result = "Forbidden" /\ ~lastReq.changed

\* John, a member of the sales group without ReadItems on Jane's Trash,
\* copied the Trash email into the group's Inbox and was answered Forbidden.
CopyWitness ==
    /\ lastReq.op = "Email/copy"
    /\ lastReq.email = "e2"
    /\ lastReq.account = Group
    /\ Group \in tokens["john"].member_of
    /\ ACL_ReadItems \notin acl["trash"]["john"]
    /\ lastReq.result = "Forbidden"

\* The rights the ACL of mailbox m grants the principal of a token,
\* directly or through the groups the token lists.
EffectiveRights(token, m) ==
    UNION {acl[m][g] : g \in ({token.primary_id} \cup token.member_of) \cap AclPrincipals}

\* The token of the grantee that made the last request.
LastToken == tokens[lastReq.who]

Count(x, s) == Cardinality({i \in DOMAIN s : s[i] = x})
ListIds(response) == [i \in DOMAIN response.list |-> response.list[i].id]

\* The ids of the request that name a blob of another account.
ForeignIds ==
    {blobOut.ids[i] : i \in {j \in DOMAIN blobOut.ids :
        /\ blobOut.ids[j] # UnparsableId
        /\ blobOut.ids[j].account_id # blobOut.account}}

\* The stores that hold the same emails of the requesting account.
SameOwnEmails(store) ==
    \A slot \in EmailSlots :
        slot[1] = blobOut.account => (slot \in store <=> slot \in blobEmails)

\* C14: Blob/lookup never leaks existence across accounts: every id whose
\* account is not the requesting account is answered in not_found (and not in
\* list), every store read made is one of the requesting account for an id of
\* that account, and the response is the same whatever emails the other
\* accounts hold.
LookupNoCrossAccountLeak ==
    blobOut.op = "lookup" =>
        /\ blobOut.response.ok =>
              \A id \in ForeignIds :
                  /\ Count(id, blobOut.response.not_found) = Count(id, blobOut.ids)
                  /\ Count(id, ListIds(blobOut.response)) = 0
        /\ \A r \in blobOut.response.reads :
              /\ r[1] = blobOut.account
              /\ \E i \in DOMAIN blobOut.ids :
                    /\ blobOut.ids[i].kind = "LinkedMaildir"
                    /\ blobOut.ids[i].account_id = blobOut.account
                    /\ blobOut.ids[i].document_id = r[2]
        /\ \A store \in SUBSET EmailSlots :
              SameOwnEmails(store) =>
                  blob_lookup(blobOut.account, blobOut.type_names, blobOut.typesOk,
                              blobOut.ids, store, blobOut.storeOk) = blobOut.response

\* Account 1 looked up, with every type name, the blob of an email that
\* exists in account 2, and no id of its own.
LookupForeignWitness ==
    /\ blobOut.op = "lookup"
    /\ blobOut.account = 1
    /\ blobOut.type_names = {"Email", "Mailbox", "Thread"}
    /\ blobOut.ids = <<[kind |-> "LinkedMaildir", account_id |-> 2, document_id |-> 1]>>
    /\ <<2, 1>> \in blobEmails
    /\ blobOut.response.ok
    /\ blobOut.response.list = <<>>
    /\ blobOut.response.reads = {}

Matched(entry, key) ==
    LET hits == {i \in DOMAIN entry.matched_ids : entry.matched_ids[i].key = key}
    IN IF hits = {} THEN <<>> ELSE entry.matched_ids[CHOOSE i \in hits : TRUE].value

MatchedKeys(entry) == [i \in DOMAIN entry.matched_ids |-> entry.matched_ids[i].key]

\* What a blob of the requesting account is expected to match for one type.
ExpectedMatch(id, key) ==
    IF id.kind = "Linked"
    THEN IF id.collection = key THEN <<[prefix |-> 0, document |-> id.document_id]>>
         ELSE <<>>
    ELSE IF id.kind = "LinkedMaildir" /\ <<id.account_id, id.document_id>> \in blobEmails
    THEN LET email == StoredEmail(id.account_id, id.document_id)
         IN CASE key = "Email" ->
                    <<[prefix |-> email.ThreadId, document |-> id.document_id]>>
              [] key = "Thread" -> <<[prefix |-> 0, document |-> email.ThreadId]>>
              [] key = "Mailbox" ->
                    [i \in DOMAIN email.MailboxIds |->
                        [prefix |-> 0, document |-> email.MailboxIds[i]]]
              [] OTHER -> <<>>
    ELSE <<>>

\* C15: a Blob/lookup that succeeds puts every requested id in exactly one of
\* list and not_found, an unparsable id in not_found, and gives each listed
\* blob, per requested type, exactly the ids of the entities that point to it
\* (for the blob of an existing email: the email id made of its thread and
\* document ids, its thread id and its mailbox ids); a type that was not
\* requested never appears in matchedIds, and no type appears twice.
LookupMatchesEntities ==
    (blobOut.op = "lookup" /\ blobOut.response.ok) =>
        LET response == blobOut.response
        IN /\ \A id \in BlobIds :
                 /\ Count(id, blobOut.ids)
                        = Count(id, ListIds(response)) + Count(id, response.not_found)
                 /\ Count(id, ListIds(response)) = 0 \/ Count(id, response.not_found) = 0
           /\ Count(UnparsableId, ListIds(response)) = 0
           /\ \A i \in DOMAIN response.list :
                 LET entry == response.list[i]
                 IN /\ entry.id.account_id = blobOut.account
                    /\ \A key \in DataTypes :
                          /\ Count(key, MatchedKeys(entry)) <= 1
                          /\ Matched(entry, key) =
                                IF key \in blobOut.type_names
                                THEN ExpectedMatch(entry.id, key) ELSE <<>>
                          /\ key \notin blobOut.type_names
                                => Count(key, MatchedKeys(entry)) = 0

\* Account 1 looked up the blob of its email in two mailboxes and an
\* unparsable id, asking for Email and Mailbox but not Thread.
LookupMatchWitness ==
    /\ blobOut.op = "lookup"
    /\ blobOut.account = 1
    /\ blobOut.type_names = {"Email", "Mailbox"}
    /\ blobOut.ids = <<[kind |-> "LinkedMaildir", account_id |-> 1, document_id |-> 2],
                       UnparsableId>>
    /\ <<1, 2>> \in blobEmails
    /\ blobOut.response.ok
    /\ Len(blobOut.response.list) = 1
    /\ Len(blobOut.response.list[1].matched_ids) = 2
    /\ blobOut.response.not_found = <<UnparsableId>>

(***************************************************************************)
(* Blob/get claims                                                         *)
(***************************************************************************)

\* A Blob/get was answered and the stored blob is in its list.
GotBlob == blobOut.op = "get" /\ blobOut.response.list # <<>>
BlobObject == blobOut.response.list[1]

Has(object, key) == \E i \in DOMAIN object : object[i].key = key
ValueOf(object, key) == object[CHOOSE i \in DOMAIN object : object[i].key = key].value
Occurrences(object, key) == Cardinality({i \in DOMAIN object : object[i].key = key})

Requested(property) == \E i \in DOMAIN blobOut.properties : blobOut.properties[i] = property

\* The bytes [o, o+l) of the blob clamped to its size n: o = 0 when the offset
\* is omitted, through the end of the blob when the length is omitted, empty
\* when o >= n.
ClaimedRange ==
    LET n == Len(blobBytes)
        o == IF blobOut.offset = None THEN 0 ELSE blobOut.offset
        end == IF blobOut.length = None THEN n
               ELSE IF o + blobOut.length > n THEN n ELSE o + blobOut.length
    IN IF o >= n THEN <<>> ELSE SubSeq(blobBytes, o + 1, end)

\* The bytes_range the handler computed for the request.
ServedRange ==
    BytesRange(blobBytes, RangeFrom(blobOut.offset), RangeTo(blobOut.offset, blobOut.length))

\* Requests whose range is all of the blob, or an offset (possibly omitted)
\* with a length whose end offset + length stays below usize::MAX.
WholeBlobRequest == blobOut.offset = None /\ blobOut.length = None
BoundedRequest ==
    /\ blobOut.length # None
    /\ RangeFrom(blobOut.offset) + blobOut.length < USIZE_MAX

DigestKeys == {"digest:sha", "digest:sha-256", "digest:sha-512"}

\* C16: the bytes used for the data and the digests of a blob are exactly
\* the bytes [offset, offset+length) clamped to the blob size, an omitted
\* offset meaning 0 and an omitted length meaning through the end of the blob.
GetServesClaimedRange ==
    GotBlob =>
        /\ Requested("data:asBase64")
              => ValueOf(BlobObject, "data:asBase64").base64 = base64_encode(ClaimedRange)
        /\ \A key \in DigestKeys :
              Requested(key) => ValueOf(BlobObject, key) = DigestValue(key, ClaimedRange)

\* C17: isTruncated is set exactly when a length was given and the requested
\* end offset + length exceeds the blob size.
GetTruncatedIffPastEnd ==
    GotBlob =>
        (Has(BlobObject, "isTruncated")
            <=> /\ blobOut.length # None
                /\ RangeFrom(blobOut.offset) + blobOut.length > Len(blobBytes))

\* C18: the digests are computed over the sliced range (the one the data is
\* taken from), which for a request with a length is [offset, offset+length)
\* clamped to the blob size and for a request without range is the whole
\* blob; size is the full blob size whatever the range.
GetDigestsOverSlice ==
    GotBlob =>
        /\ Requested("size") => ValueOf(BlobObject, "size") = Len(blobBytes)
        /\ \A key \in DigestKeys :
              Requested(key) =>
                  /\ Occurrences(BlobObject, key) = 1
                  /\ ValueOf(BlobObject, key) = DigestValue(key, ServedRange)
                  /\ BoundedRequest => ValueOf(BlobObject, key) = DigestValue(key, ClaimedRange)
                  /\ WholeBlobRequest => ValueOf(BlobObject, key) = DigestValue(key, blobBytes)

\* The digests of the middle byte of a three-byte blob were asked for: they
\* are not the digests of the blob, and size is 3.
GetDigestWitness ==
    /\ GotBlob
    /\ Len(blobBytes) = 3
    /\ blobOut.offset = 1 /\ blobOut.length = 1
    /\ Requested("digest:sha") /\ Requested("size")
    /\ ValueOf(BlobObject, "digest:sha") = DigestValue("digest:sha", <<blobBytes[2]>>)
    /\ ValueOf(BlobObject, "digest:sha") # DigestValue("digest:sha", blobBytes)
    /\ ValueOf(BlobObject, "size") = 3

\* Valid UTF-8 over ByteValues: every lead byte is followed by a continuation
\* byte and every continuation byte follows a lead byte; its text has one
\* code point per letter and per two-byte sequence.
WellFormed(bytes) ==
    \A i \in DOMAIN bytes :
        /\ bytes[i] = 195 => (i < Len(bytes) /\ bytes[i + 1] = 169)
        /\ bytes[i] = 169 => (i > 1 /\ bytes[i - 1] = 195)
ExpectedText(bytes) ==
    LET kept == SelectSeq(bytes, LAMBDA b : b # 195)
    IN [i \in DOMAIN kept |-> IF kept[i] = 169 THEN 233 ELSE kept[i]]

\* What data:asText must be for a slice.
TextAnswer(object, slice) ==
    IF WellFormed(slice)
    THEN /\ ValueOf(object, "data:asText") = [text |-> ExpectedText(slice)]
         /\ ~Has(object, "isEncodingProblem")
    ELSE /\ ValueOf(object, "data:asText") = "null"
         /\ Has(object, "isEncodingProblem")
         /\ ValueOf(object, "isEncodingProblem") = TRUE

\* C19: data:asText is the slice as text when the slice is valid UTF-8, and
\* otherwise null with isEncodingProblem = true; the validity is that of the
\* slice, not of the whole blob.
GetTextJudgedOnSlice ==
    (GotBlob /\ Requested("data:asText")) =>
        /\ Occurrences(BlobObject, "data:asText") = 1
        /\ TextAnswer(BlobObject, ServedRange)
        /\ BoundedRequest => TextAnswer(BlobObject, ClaimedRange)
        /\ WholeBlobRequest => TextAnswer(BlobObject, blobBytes)

\* A valid blob was cut inside its two-byte sequence: the text is null and
\* isEncodingProblem is set.
GetTextWitness ==
    /\ GotBlob
    /\ blobBytes = <<195, 169, 97>>
    /\ blobOut.offset = 1 /\ blobOut.length = 2
    /\ blobOut.properties = <<"data:asText">>
    /\ Has(BlobObject, "isEncodingProblem")
    /\ ValueOf(BlobObject, "data:asText") = "null"

\* What the default data property must be for a slice.
DefaultAnswer(object, slice) ==
    IF WellFormed(slice)
    THEN /\ Has(object, "data:asText") /\ ~Has(object, "data:asBase64")
         /\ ValueOf(object, "data:asText") = [text |-> ExpectedText(slice)]
         /\ ~Has(object, "isEncodingProblem")
    ELSE /\ Has(object, "data:asBase64") /\ ~Has(object, "data:asText")
         /\ ValueOf(object, "data:asBase64") = [base64 |-> base64_encode(slice)]
         /\ Has(object, "isEncodingProblem")
         /\ ValueOf(object, "isEncodingProblem") = TRUE

\* What an explicit data:asBase64 must be for a slice.
Base64Answer(object, slice) ==
    /\ Occurrences(object, "data:asBase64") = 1
    /\ ValueOf(object, "data:asBase64") = [base64 |-> base64_encode(slice)]
    /\ ~Has(object, "isEncodingProblem")

\* C20: the default data property gives the slice under data:asText when it
\* is valid UTF-8 and otherwise under data:asBase64 with isEncodingProblem =
\* true, exactly one of the two; an explicit data:asBase64 gives the base64 of
\* the slice and does not set isEncodingProblem.
GetDefaultData ==
    /\ (GotBlob /\ blobOut.properties = DefaultProperties) =>
          /\ Occurrences(BlobObject, "data:asText")
                + Occurrences(BlobObject, "data:asBase64") = 1
          /\ ~Has(BlobObject, "data")
          /\ DefaultAnswer(BlobObject, ServedRange)
          /\ BoundedRequest => DefaultAnswer(BlobObject, ClaimedRange)
          /\ WholeBlobRequest => DefaultAnswer(BlobObject, blobBytes)
    /\ (GotBlob /\ blobOut.properties = <<"data:asBase64", "size">>) =>
          /\ Base64Answer(BlobObject, ServedRange)
          /\ BoundedRequest => Base64Answer(BlobObject, ClaimedRange)
          /\ WholeBlobRequest => Base64Answer(BlobObject, blobBytes)

\* The default data of the last two bytes of a valid blob, cut inside its
\* two-byte sequence, came back as base64 with isEncodingProblem.
GetDefaultWitness ==
    /\ GotBlob
    /\ blobBytes = <<195, 169, 97>>
    /\ blobOut.offset = 1 /\ blobOut.length = 2
    /\ blobOut.properties = DefaultProperties
    /\ Has(BlobObject, "isEncodingProblem")
    /\ ValueOf(BlobObject, "data:asBase64") = [base64 |-> <<"q", "W", "E", "=">>]

(***************************************************************************)
(* Blob/upload claims                                                      *)
(***************************************************************************)

\* The byte string a base64 text stands for: the one that encodes to it.
BytesOfBase64(chars) == CHOOSE x \in BlobContents : base64_encode(x) = chars

\* The bytes of a text: one byte per letter, two for the letter e-acute.
BytesOfText(text) ==
    IF text = <<>> THEN <<>>
    ELSE IF text = <<97>> THEN <<97>>
    ELSE IF text = <<233>> THEN <<195, 169>>
    ELSE IF text = <<97, 233>> THEN <<97, 195, 169>>
    ELSE <<0>>

\* The bytes [offset, offset+length) of a blob, from its start when the
\* offset is omitted and through its end when the length is omitted.
ReferencedBytes(bytes, offset, length) ==
    LET o == IF offset = None THEN 0 ELSE offset
        l == IF length = None THEN Len(bytes) - o ELSE length
    IN [i \in 1..l |-> bytes[o + i]]

\* The blob a reference of an upload names: the stored blob or the first
\* blob of the request.
ReferencedBlob(blobId) ==
    IF blobId = "B" THEN blobBytes ELSE blobTemp["T1"].bytes

ExpectedFragment(fragment) ==
    CASE fragment.kind = "asBase64" -> BytesOfBase64(fragment.chars)
      [] fragment.kind = "asText" -> BytesOfText(fragment.text)
      [] OTHER -> ReferencedBytes(ReferencedBlob(fragment.blobId),
                                  fragment.offset, fragment.length)

\* C21: every uploaded blob is the concatenation, in order, of what its
\* fragments contribute (a literal its bytes, a reference the bytes
\* [offset, offset+length) of the blob it names, be it the stored blob or a
\* blob created earlier in the request), the response gives its size, and a
\* Blob/get of a blob uploaded as one base64 literal X returns X and |X|.
UploadConcatenates ==
    /\ \A id \in DOMAIN blobTemp :
          LET blob == blobTemp[id]
              n == Len(blob.data)
          IN /\ n >= 1 => \E cut \in 0..Len(blob.bytes) :
                   /\ SubSeq(blob.bytes, 1, cut) = ExpectedFragment(blob.data[1])
                   /\ SubSeq(blob.bytes, cut + 1, Len(blob.bytes)) =
                         IF n = 1 THEN <<>>
                         ELSE IF n = 2 THEN ExpectedFragment(blob.data[2])
                         ELSE ExpectedFragment(blob.data[2]) \o ExpectedFragment(blob.data[3])
             /\ n <= 3
    /\ blobOut.op = "upload" =>
          \A i \in DOMAIN blobOut.create :
              LET answer == blobOut.response.created["#" \o blobOut.create[i].id]
              IN /\ answer.id \in DOMAIN blobTemp
                 /\ blobTemp[answer.id].data = blobOut.create[i].data
                 /\ answer.size = Len(blobTemp[answer.id].bytes)
    /\ (GotBlob /\ blobOut.ids[1] \in DOMAIN blobTemp) =>
          LET blob == blobTemp[blobOut.ids[1]]
          IN /\ Requested("size") => ValueOf(BlobObject, "size") = Len(blob.bytes)
             /\ (Len(blob.data) = 1 /\ blob.data[1].kind = "asBase64"
                    /\ Requested("data:asBase64")) =>
                   /\ ValueOf(BlobObject, "data:asBase64") = [base64 |-> blob.data[1].chars]
                   /\ ValueOf(BlobObject, "size") = Len(BytesOfBase64(blob.data[1].chars))

\* A blob composed of a reference into the first blob of the request and a
\* reference into the stored blob was uploaded and then read back.
UploadWitness ==
    /\ GotBlob
    /\ blobOut.ids = <<"T2">>
    /\ blobBytes = <<97, 195, 169>>
    /\ blobTemp["T1"].bytes = <<97, 195, 169>>
    /\ blobTemp["T2"].data = <<BlobRef("#b4", 1, 2), BlobRef("B", 1, 1)>>
    /\ blobTemp["T2"].bytes = <<195, 169, 195>>
    /\ Requested("data:asBase64")
    /\ ValueOf(BlobObject, "size") = 3

\* ---------------------------------------------------------------------------
\* Claims about DeliveryAttempt::build_dsn (specification SpecDsn)
\* ---------------------------------------------------------------------------

\* A step in which send_dsn ran build_dsn on the message under delivery.
BuildStep == dsnOut'.op \in {"dsn", "no_dsn"}

AddressCount(seq, address) == Cardinality({i \in DOMAIN seq : seq[i] = address})
BlockCount(dsn, address, action) ==
    Cardinality({i \in DOMAIN dsn : dsn[i].address = address /\ dsn[i].action = action})
AnyBlockCount(dsn, address) == Cardinality({i \in DOMAIN dsn : dsn[i].address = address})
TextCount(txt, address) ==
    AddressCount(txt.success, address) + AddressCount(txt.delay, address)
        + AddressCount(txt.failed, address)
DomainOf(msg, r) == msg.domains[msg.recipients[r].domain_idx]

\* One line of the category and one per-recipient block, nothing else, for the
\* address, and the recipient marked by the call.
FinalLineOnce(r, section, action) ==
    LET a == message.recipients[r].address IN
    /\ dsnOut'.op = "dsn"
    /\ AddressCount(section, a) = 1
    /\ TextCount(dsnOut'.txt, a) = 1
    /\ BlockCount(dsnOut'.dsn, a, action) = 1
    /\ AnyBlockCount(dsnOut'.dsn, a) = 1
    /\ RCPT_DSN_SENT \in Flags(message', r)

\* C22: in a build_dsn call, a recipient without DSN_SENT and NOTIFY_NEVER
\* whose own status is Completed and that has NOTIFY_SUCCESS gets exactly one
\* success line and one per-recipient block, one whose own status is
\* PermanentFailure and that has NOTIFY_FAILURE gets exactly one failure line
\* and one block, and both carry DSN_SENT when the call returns.
FinalStatusReportedOnce ==
    [][BuildStep =>
        \A r \in DOMAIN message.recipients :
            /\ (/\ Unflagged(message, r)
                /\ message.recipients[r].status = "Completed"
                /\ RCPT_NOTIFY_SUCCESS \in Flags(message, r))
                    => FinalLineOnce(r, dsnOut'.txt.success, "success")
            /\ (/\ Unflagged(message, r)
                /\ message.recipients[r].status = "PermanentFailure"
                /\ RCPT_NOTIFY_FAILURE \in Flags(message, r))
                    => FinalLineOnce(r, dsnOut'.txt.failed, "failure")]_vars

\* C22 witness: one DSN reported a delivered recipient in its success section
\* and a permanently failed one in its failure section, two blocks in all, and
\* both recipients are marked.
FinalStatusWitness ==
    /\ dsnOut.op = "dsn"
    /\ dsnOut.txt = [success |-> <<"x@b">>, delay |-> << >>, failed |-> <<"y@c">>]
    /\ Len(dsnOut.dsn) = 2
    /\ dsnOut.lines[1].from = "rcpt" /\ dsnOut.lines[2].from = "rcpt"
    /\ message.recipients[1].status = "Completed"
    /\ message.recipients[2].status = "PermanentFailure"
    /\ \A r \in 1..2 : RCPT_DSN_SENT \in Flags(message, r)

\* The condition under which the code writes a delay line for a recipient
\* whose own status is TemporaryFailure.
DelayCondition(msg, r, t) ==
    /\ Unflagged(msg, r)
    /\ RCPT_NOTIFY_DELAY \in Flags(msg, r)
    /\ DomainOf(msg, r).notify.due <= t

\* C23: in a build_dsn call a recipient whose own status is TemporaryFailure
\* gets a delay line (and a block) exactly when it has NOTIFY_DELAY, neither
\* DSN_SENT nor NOTIFY_NEVER, and its domain's notify.due is not after now;
\* the call leaves its flags and status as they were, so DSN_SENT is not set.
DelayLineIffDue ==
    [][BuildStep =>
        \A r \in DOMAIN message.recipients :
            message.recipients[r].status = "TemporaryFailure" =>
                LET a == message.recipients[r].address
                    n == IF DelayCondition(message, r, now) THEN 1 ELSE 0
                IN /\ AddressCount(dsnOut'.txt.delay, a) = n
                   /\ TextCount(dsnOut'.txt, a) = n
                   /\ BlockCount(dsnOut'.dsn, a, "delay") = n
                   /\ AnyBlockCount(dsnOut'.dsn, a) = n
                   /\ Flags(message', r) = Flags(message, r)
                   /\ message'.recipients[r].status = "TemporaryFailure"]_vars

\* C23 witness: recipient 1 is reported as delayed for the second time (its
\* domain's schedule index moved once before, and only its delay lines move
\* it), it still has no DSN_SENT.
DelayedAgainWitness ==
    /\ dsnOut.op = "dsn"
    /\ Len(queue) = 2
    /\ dsnOut.txt.delay = <<"x@b">>
    /\ message.recipients[1].status = "TemporaryFailure"
    /\ RCPT_DSN_SENT \notin Flags(message, 1)
    /\ RCPT_NOTIFY_DELAY \notin Flags(message, 2)
    /\ message.domains[1].notify.inner = 1
    /\ message.domains[1].notify.due = message.domains[1].expires + PastExpiry

\* C24: a recipient with NOTIFY_NEVER gets no line and no block from build_dsn
\* or from the double-bounce report, whatever its status, other flags and
\* deadlines, and a message all of whose recipients carry NOTIFY_NEVER never
\* produces a DSN.
NotifyNeverSuppresses ==
    [][SameMessage =>
        /\ \A r \in DOMAIN message.recipients :
            RCPT_NOTIFY_NEVER \in Flags(message, r) =>
                /\ BuildStep => dsnOut'.lines[r] = NoLine
                /\ TextCount(dsnOut'.txt, message.recipients[r].address) = 0
                /\ AnyBlockCount(dsnOut'.dsn, message.recipients[r].address) = 0
                /\ r \notin dsnOut'.bounced
                /\ Flags(message', r) = Flags(message, r)
        /\ (\A r \in DOMAIN message.recipients : RCPT_NOTIFY_NEVER \in Flags(message, r))
                => /\ dsnOut'.op # "dsn"
                   /\ dsnOut'.dsn = << >>
                   /\ queue' = queue]_vars

\* C24 witness: build_dsn ran and returned nothing on a message whose two
\* recipients carry NOTIFY_NEVER next to the other NOTIFY flags, one failed
\* for good and one delivered.
NotifyNeverWitness ==
    /\ dsnOut.op = "no_dsn"
    /\ message.return_path # ""
    /\ \A r \in 1..2 :
        {RCPT_NOTIFY_NEVER, RCPT_NOTIFY_SUCCESS, RCPT_NOTIFY_FAILURE, RCPT_NOTIFY_DELAY}
            \subseteq Flags(message, r)
    /\ message.recipients[1].status = "PermanentFailure"
    /\ message.recipients[2].status = "Completed"
    /\ queue = << >>

\* The category build_dsn writes for a status, given what the recipient asked
\* for and whether the delay notification is due.
ExpectedCategory(msg, r, status, t) ==
    CASE status = "Completed" ->
            IF RCPT_NOTIFY_SUCCESS \in Flags(msg, r) THEN "success" ELSE "none"
      [] status = "PermanentFailure" ->
            IF RCPT_NOTIFY_FAILURE \in Flags(msg, r) THEN "failure" ELSE "none"
      [] OTHER ->
            IF RCPT_NOTIFY_DELAY \in Flags(msg, r) /\ DomainOf(msg, r).notify.due <= t
            THEN "delay" ELSE "none"

\* C25: a recipient that build_dsn does not skip is reported by its own
\* status whenever that is not Scheduled, whatever its domain's status, and by
\* its domain's status only when its own status is Scheduled.
OwnStatusOverridesDomain ==
    [][BuildStep =>
        \A r \in DOMAIN message.recipients :
            Unflagged(message, r) =>
                LET own == message.recipients[r].status
                    line == dsnOut'.lines[r]
                IN IF own # "Scheduled"
                   THEN /\ line.cat = ExpectedCategory(message, r, own, now)
                        /\ line.from \in {"rcpt", "none"}
                   ELSE /\ line.from \in {"domain", "none"}
                        /\ DomainOf(message, r).status # "Completed" =>
                            line.cat = ExpectedCategory(message, r,
                                            DomainOf(message, r).status, now)]_vars

\* C25 witness: a recipient with a Completed status of its own in a domain
\* that failed permanently was reported as delivered.
OwnStatusWitness ==
    /\ dsnOut.op = "dsn"
    /\ message.recipients[1].status = "Completed"
    /\ message.domains[1].status = "PermanentFailure"
    /\ dsnOut.lines[1] = Line("success", "rcpt")
    /\ dsnOut.txt.success = <<"x@b">>
    /\ dsnOut.txt.failed = << >>

EffectiveStatus(msg, r) ==
    IF msg.recipients[r].status # "Scheduled"
    THEN msg.recipients[r].status
    ELSE DomainOf(msg, r).status

NotifyPending(msg, d, t) ==
    /\ msg.domains[d].status \in {"TemporaryFailure", "Scheduled"}
    /\ msg.domains[d].notify.due <= t

DelayAdvancesNotify ==
    [][BuildStep =>
        /\ \A d \in DOMAIN message.domains :
            (dsnOut'.txt.delay # << >> /\ NotifyPending(message, d, now)) =>
                LET old == message.domains[d].notify
                    new == message'.domains[d].notify
                IN IF old.inner + 2 <= Len(NotifySchedule)
                   THEN /\ new.inner = old.inner + 1
                        /\ new.due = now + NotifySchedule[new.inner + 1]
                   ELSE /\ new.inner = old.inner
                        /\ new.due = message.domains[d].expires + PastExpiry
        /\ \A r \in DOMAIN message.recipients :
            (/\ DomainOf(message, r).notify.due = DomainOf(message, r).expires + PastExpiry
             /\ now <= DomainOf(message, r).expires)
                => dsnOut'.lines[r].cat # "delay"]_vars

\* C30 witness: a second delay DSN found domain 1 at the last entry of the
\* schedule and set its due past its expiry; the first one had moved it to
\* that entry.
ScheduleExhaustedWitness ==
    /\ dsnOut.op = "dsn"
    /\ dsnOut.lines[1].cat = "delay"
    /\ message.domains[1].status \in {"TemporaryFailure", "Scheduled"}
    /\ message.domains[1].notify.inner = Len(NotifySchedule) - 1
    /\ message.domains[1].notify.due = message.domains[1].expires + PastExpiry
    /\ now <= message.domains[1].expires

\* ---------------------------------------------------------------------------
\* Claims about the OAuthCode words (specification SpecOAuth)
\* ---------------------------------------------------------------------------

StatusMoves == {<<STATUS_PENDING, STATUS_AUTHORIZED>>, <<STATUS_AUTHORIZED, STATUS_TOKEN_ISSUED>>}

\* A poller holds the account id it read after a status load of Authorized.
HasReadAccount(poll) == poll.pc = "issue" \/ poll.response = "granted"

\* C27: under every interleaving of the authorizing user and the pollers the
\* status word only moves Pending -> Authorized -> TokenIssued, each move in
\* a step that writes that word alone, the account_id word is written only
\* while the status is Pending, and a poller that loaded status Authorized
\* reads (and is granted a token for) the account id of the principal that
\* authorized the code, never the initial value.
OAuthWordsConsistent ==
    [][/\ oauth_code'.status # oauth_code.status =>
            /\ <<oauth_code.status, oauth_code'.status>> \in StatusMoves
            /\ oauth_code'.account_id = oauth_code.account_id
       /\ oauth_code'.account_id # oauth_code.account_id =>
            /\ oauth_code.status = STATUS_PENDING
            /\ oauth_code'.status = oauth_code.status
       /\ \A k \in Pollers :
            HasReadAccount(oaPoll'[k]) =>
                /\ oaPoll'[k].status = STATUS_AUTHORIZED
                /\ oaPoll'[k].account_id = oaUser'.uid
                /\ oaPoll'[k].account_id \in OAuthPrincipals
                /\ oaPoll'[k].response = "granted" => oaPoll'[k].granted = oaUser'.uid
       /\ Cardinality({k \in Pollers : oaPoll'[k].response = "granted"}) <= 1]_vars

\* C27 witness: principal 2 authorized the code, two pollers loaded status
\* Authorized and read account id 2, one of them moved the status to
\* TokenIssued and was granted the token, the other lost the compare-and-set.
OAuthRaceWitness ==
    /\ oaUser = [pc |-> "done", uid |-> 2, step |-> 2]
    /\ oauth_code = [status |-> STATUS_TOKEN_ISSUED, account_id |-> 2]
    /\ oaPoll[1].response = "granted" /\ oaPoll[1].granted = 2
    /\ oaPoll[2].response = "expired_token"
    /\ oaPoll[2].status = STATUS_AUTHORIZED /\ oaPoll[2].account_id = 2

\* ---------------------------------------------------------------------------
\* Claims about the directory gateway and authenticate (specification SpecAuth)
\* ---------------------------------------------------------------------------

\* The answer of a directory read when the row does not exist.
EmptyAnswer(op) == IF op = "get_account_gids" THEN {} ELSE Nothing

\* Whether the directory holds a row for the read.
RowExists(call) ==
    CASE call.op = "get_account_id" -> call.login \in DOMAIN DirectoryLogins
      [] call.op = "get_account_secret" -> call.uid \in 1..3
      [] call.op = "get_account_login" -> call.uid \in 1..4
      [] OTHER -> call.uid \in 1..3 /\ AccountOf[call.uid] \in members

\* C28: each directory read (uid by login, secret by uid, gids by uid, login
\* by uid) answers the empty optional or the empty list when the SQL query
\* fails, the very answer it gives when no row exists, and a present value
\* only when the backend answered with a row.
DirectoryFailureIsEmpty ==
    authOut.op \in DirectoryReads =>
        /\ ~authOut.healthy => authOut.result = EmptyAnswer(authOut.op)
        /\ (authOut.healthy /\ ~RowExists(authOut)) => authOut.result = EmptyAnswer(authOut.op)
        /\ authOut.result # EmptyAnswer(authOut.op) =>
                /\ authOut.healthy /\ authOut.auth_db = "Sql" /\ RowExists(authOut)
                /\ authOut.op # "get_account_gids" => authOut.result.some

\* C28 witness: the secret of an existing uid was asked of the SQL backend,
\* the query failed and the read answered None.
DirectoryFailureWitness ==
    /\ authOut.op = "get_account_secret"
    /\ authOut.auth_db = "Sql"
    /\ authOut.uid = 1
    /\ ~authOut.healthy
    /\ authOut.result = Nothing

\* The login and the secret are those of a user of the directory.
GoodCredentials(call) ==
    /\ call.login \in DOMAIN DirectoryLogins
    /\ DirectoryLogins[call.login] \in DOMAIN DirectorySecrets
    /\ call.secret = DirectorySecrets[DirectoryLogins[call.login]]

\* C29: authenticate returns a token only for a login the directory resolves
\* to a uid whose secret it returns and that equals the supplied secret, the
\* token's primary_id being that uid; whenever one of the lookups made
\* during the call fails no token is returned, and a token returned is the
\* one a healthy directory gives.
AuthOutageIsFailure ==
    authOut.op = "authenticate" =>
        /\ authOut.result.some =>
                /\ GoodCredentials(authOut)
                /\ authOut.health.uid /\ authOut.health.secret
                /\ authOut.result.value.primary_id = AccountOf[DirectoryLogins[authOut.login]]
        /\ authOut.health # Healthy => ~authOut.result.some
        /\ authOut.result.some =>
                authOut.result = authenticate(authOut.auth_db, authOut.login,
                                              authOut.secret, Healthy)

\* The categories the lines of a text part belong to, and the section
\* headings found in it.
CategoriesOf(assign) == {assign[r] : r \in DOMAIN assign} \ {"none"}
Headings == {HeadingSuccess, HeadingDelay, HeadingFailure}
HeadingOf(cat) ==
    CASE cat = "success" -> HeadingSuccess [] cat = "delay" -> HeadingDelay [] OTHER -> HeadingFailure
HeadingsIn(txt) == {txt[i] : i \in DOMAIN txt} \cap Headings
HeadingsWhenMixed(doc) ==
    HeadingsIn(doc.result.txt) =
        IF Cardinality(CategoriesOf(doc.assign)) >= 2
        THEN {HeadingOf(cat) : cat \in CategoriesOf(doc.assign)} ELSE {}

\* C31 as stated: the subject is 'Successfully delivered message' for
\* success only, 'Warning: Delay in message delivery' for delay only, 'Failed
\* to deliver message' for failure only and 'Partially delivered message' for
\* every combination of two or three categories; the section headings are in
\* the text part exactly in the mixed case.
SubjectPartialWhenMixed ==
    (dsnDoc.op = "text" /\ dsnDoc.result.some) =>
        /\ dsnDoc.result.subject =
              CASE CategoriesOf(dsnDoc.assign) = {"success"} -> "Successfully delivered message"
                [] CategoriesOf(dsnDoc.assign) = {"delay"} -> "Warning: Delay in message delivery"
                [] CategoriesOf(dsnDoc.assign) = {"failure"} -> "Failed to deliver message"
                [] OTHER -> "Partially delivered message"
        /\ HeadingsWhenMixed(dsnDoc)

\* C31, amended: as above, but the combination of delay and failure without
\* a success has the subject 'Warning: Temporary and permanent failures
\* during message delivery'; the mixed combinations with a success have the
\* 'partially delivered' subject; a text part exists exactly when a line was
\* written; the headings are in the text part exactly in the mixed case.
SubjectByCombination ==
    dsnDoc.op = "text" =>
        /\ dsnDoc.result.some <=> CategoriesOf(dsnDoc.assign) # {}
        /\ dsnDoc.result.some =>
            /\ dsnDoc.result.subject =
                  CASE CategoriesOf(dsnDoc.assign) = {"success"} -> "Successfully delivered message"
                    [] CategoriesOf(dsnDoc.assign) = {"delay"} -> "Warning: Delay in message delivery"
                    [] CategoriesOf(dsnDoc.assign) = {"failure"} -> "Failed to deliver message"
                    [] CategoriesOf(dsnDoc.assign) = {"delay", "failure"} ->
                          "Warning: Temporary and permanent failures during message delivery"
                    [] OTHER -> "Partially delivered message"
            /\ HeadingsWhenMixed(dsnDoc)

DelayAndFailureWitness ==
    /\ dsnDoc.op = "text"
    /\ CategoriesOf(dsnDoc.assign) = {"delay", "failure"}
    /\ dsnDoc.result.some
    /\ dsnDoc.result.subject = "Warning: Temporary and permanent failures during message delivery"
    /\ HeadingsIn(dsnDoc.result.txt) = {HeadingDelay, HeadingFailure}

IsPrefix(a, b) == Len(a) <= Len(b) /\ a = SubSeq(b, 1, Len(a))
MaxOf(S) == CHOOSE x \in S : \A y \in S : y <= x
MinOf(S) == CHOOSE x \in S : \A y \in S : x <= y
LfsIn(buf, upto) == {p \in 1..upto : buf[p] = LF}

\* C32 as stated: the original-message part is the prefix of the spooled
\* message that ends at the last LF among its first min(size, 1024) bytes
\* (the whole window when it holds no LF), for every message content.
HeadersCutAtLastLf ==
    (/\ dsnDoc.op = "headers" /\ dsnDoc.io = "ok"
     /\ dsnDoc.br = Min(Len(dsnDoc.file), HeaderWindow)
     /\ from_utf8(SubSeq(dsnDoc.file, 1, dsnDoc.br)).ok) =>
        LET n == Min(Len(dsnDoc.file), HeaderWindow)
            cut == IF LfsIn(dsnDoc.file, n) = {} THEN n ELSE MaxOf(LfsIn(dsnDoc.file, n))
        IN dsnDoc.result = SubSeq(dsnDoc.file, 1, cut)

\* The byte before position p that is not a CR (0 when there is none), and
\* the positions at which the scan of the window ends: a NUL, or an LF that
\* follows an LF with nothing but CRs between them.
PrevNonCr(buf, p) ==
    LET Q == {q \in 1..(p - 1) : buf[q] # CR}
    IN IF Q = {} THEN 0 ELSE buf[MaxOf(Q)]
ScanEnds(buf) ==
    {p \in DOMAIN buf : buf[p] = NUL \/ (buf[p] = LF /\ PrevNonCr(buf, p) = LF)}

\* C32, amended: the part is a prefix of the spooled message of at most
\* 1024 bytes. Of the bytes read (the rest of the window counting as NUL) the
\* scan ends at the first NUL or at the LF that ends the first empty line;
\* the part ends at that empty line, else at the last LF before the place
\* the scan ended, else, with no LF there, it is everything that was read.
\* It is empty when these bytes are not UTF-8 or the file cannot be read.
HeadersCutAtHeaderEnd ==
    dsnDoc.op = "headers" =>
        LET n == Min(Len(dsnDoc.file), HeaderWindow)
            buf == [i \in 1..n |-> IF i <= dsnDoc.br THEN dsnDoc.file[i] ELSE NUL]
            end == IF ScanEnds(buf) = {} THEN n + 1 ELSE MinOf(ScanEnds(buf))
            lfs == LfsIn(buf, Min(end, n))
            cut == IF lfs = {} THEN dsnDoc.br ELSE MaxOf(lfs)
            kept == SubSeq(dsnDoc.file, 1, cut)
        IN /\ IsPrefix(dsnDoc.result, dsnDoc.file)
           /\ Len(dsnDoc.result) <= HeaderWindow
           /\ dsnDoc.result = IF dsnDoc.io = "ok" /\ from_utf8(kept).ok THEN kept ELSE << >>

\* The header block ends inside the window and a line of the body follows.
HeaderEndWitness ==
    /\ dsnDoc.op = "headers" /\ dsnDoc.io = "ok"
    /\ dsnDoc.br = HeaderWindow
    /\ dsnDoc.result # << >>
    /\ dsnDoc.result[Len(dsnDoc.result)] = LF
    /\ Len(dsnDoc.result) >= 2 /\ dsnDoc.result[Len(dsnDoc.result) - 1] = LF
    /\ \E p \in (Len(dsnDoc.result) + 1)..HeaderWindow : dsnDoc.file[p] = LF

\* A block was written for the recipient: fields and the blank line.
BlockWritten(doc) == doc.op = "block" /\ Len(doc.result.fields) > 1
FieldNames(doc) ==
    [i \in 1..(Len(doc.result.fields) - 1) |-> doc.result.fields[i].name]
FieldOrder ==
    <<"Original-Recipient", "Final-Recipient", "Action", "Status", "Remote-MTA",
      "Diagnostic-Code", "Will-Retry-Until">>
Rank(name) == CHOOSE i \in DOMAIN FieldOrder : FieldOrder[i] = name
NamesOf(doc) == {FieldNames(doc)[i] : i \in DOMAIN FieldNames(doc)}

\* C33: every per-recipient block has its fields in the order
\* Original-Recipient (only with an ORCPT), Final-Recipient, Action, Status,
\* Remote-MTA, Diagnostic-Code, Will-Retry-Until; Final-Recipient, Action and
\* Status are in every block, whether the status is the recipient's or the
\* domain's; the block is followed by a blank line.
BlockFieldsInOrder ==
    BlockWritten(dsnDoc) =>
        LET names == FieldNames(dsnDoc)
        IN /\ dsnDoc.result.fields[Len(dsnDoc.result.fields)] = BlankLine
           /\ \A i \in DOMAIN names : names[i] \in {FieldOrder[k] : k \in DOMAIN FieldOrder}
           /\ \A i, j \in DOMAIN names : i < j => Rank(names[i]) < Rank(names[j])
           /\ "Original-Recipient" \in NamesOf(dsnDoc) <=> dsnDoc.rcpt.orcpt # ""
           /\ {"Final-Recipient", "Action", "Status"} \subseteq NamesOf(dsnDoc)

\* The status a block reports and the value of one of its fields.
ReportedStatus(doc) ==
    IF doc.result.from = "rcpt" THEN doc.rcpt.status ELSE doc.domain.status
FieldValue(doc, name) ==
    LET i == CHOOSE k \in DOMAIN doc.result.fields : doc.result.fields[k].name = name
    IN doc.result.fields[i].value
IsSmtpResponse(doc) ==
    \/ doc.result.from = "rcpt"
    \/ /\ doc.domain.status.kind \in {"TemporaryFailure", "PermanentFailure"}
       /\ doc.domain.status.err.type = "UnexpectedResponse"
ResponseOf(doc) ==
    IF doc.result.from = "rcpt" THEN doc.rcpt.status.response
    ELSE doc.domain.status.err.response

\* C34: Action is 'delivered' for Completed, 'failed' for PermanentFailure
\* and 'delayed' for TemporaryFailure and Scheduled; the Status of a failure
\* that is no SMTP response is 5.0.0 when permanent and 4.0.0 when temporary;
\* the Status of an SMTP response is its enhanced code when that has a
\* class digit other than 0 and else the digits of the reply code; the class
\* digit is 2 for delivered, 4 for delayed and 5 for failed.
ActionMatchesStatusClass ==
    BlockWritten(dsnDoc) =>
        LET kind == ReportedStatus(dsnDoc).kind
            action == FieldValue(dsnDoc, "Action")
        IN /\ action = CASE kind = "Completed" -> "delivered"
                         [] kind = "PermanentFailure" -> "failed"
                         [] OTHER -> "delayed"
           /\ "Status" \in NamesOf(dsnDoc) =>
                LET status == FieldValue(dsnDoc, "Status")
                IN /\ IsSmtpResponse(dsnDoc) =>
                        status = IF ResponseOf(dsnDoc).esc[1] # 0 THEN ResponseOf(dsnDoc).esc
                                 ELSE <<ResponseOf(dsnDoc).code \div 100,
                                        (ResponseOf(dsnDoc).code \div 10) % 10,
                                        ResponseOf(dsnDoc).code % 10>>
                   /\ ~IsSmtpResponse(dsnDoc) =>
                        status = IF kind = "PermanentFailure" THEN <<5, 0, 0>> ELSE <<4, 0, 0>>
                   /\ status[1] = CASE action = "delivered" -> 2
                                    [] action = "delayed" -> 4
                                    [] OTHER -> 5

\* ---------------------------------------------------------------------------
\* Further claims about build_dsn (specification SpecDsn)
\* ---------------------------------------------------------------------------

\* C38: when build_dsn returns a DSN with a delay line for a recipient, the
\* notify.due of that recipient's domain is later than now afterwards,
\* whether the line came from the recipient's status or from the domain's;
\* and a send_dsn that follows at once, with no status changed, writes no
\* delay line for that recipient again.
DelayLineDefersNotify ==
    [][BuildStep =>
        \A r \in DOMAIN message.recipients :
            /\ (dsnOut'.op = "dsn" /\ dsnOut'.lines[r].cat = "delay")
                    => DomainOf(message', r).notify.due > now
            /\ (dsnOut.op = "dsn" /\ dsnOut.lines[r].cat = "delay")
                    => dsnOut'.lines[r].cat # "delay"]_vars

\* C39: after a build_dsn call every recipient that had neither DSN_SENT nor
\* NOTIFY_NEVER and is reported by a final status (its own Completed or
\* PermanentFailure, or its domain's PermanentFailure while it is Scheduled)
\* has DSN_SENT and STATUS_CHANGED, with or without the matching NOTIFY flag
\* and whether or not a DSN is returned; without the matching flag it has no
\* line in this call; a recipient that has DSN_SENT has no line in any call;
\* and None is returned exactly when no line was written.
FinalStatusAlwaysMarked ==
    [][BuildStep =>
        /\ \A r \in DOMAIN message.recipients :
            /\ (/\ Unflagged(message, r)
                /\ \/ message.recipients[r].status \in {"Completed", "PermanentFailure"}
                   \/ /\ message.recipients[r].status = "Scheduled"
                      /\ DomainOf(message, r).status = "PermanentFailure")
                 => /\ {RCPT_DSN_SENT, RCPT_STATUS_CHANGED} \subseteq Flags(message', r)
                    /\ (LET wanted == IF EffectiveStatus(message, r) = "Completed"
                                      THEN RCPT_NOTIFY_SUCCESS ELSE RCPT_NOTIFY_FAILURE
                        IN wanted \notin Flags(message, r) =>
                                /\ dsnOut'.lines[r] = NoLine
                                /\ TextCount(dsnOut'.txt, message.recipients[r].address) = 0
                                /\ AnyBlockCount(dsnOut'.dsn, message.recipients[r].address) = 0)
            /\ RCPT_DSN_SENT \in Flags(message, r) =>
                    /\ dsnOut'.lines[r] = NoLine
                    /\ TextCount(dsnOut'.txt, message.recipients[r].address) = 0
                    /\ RCPT_DSN_SENT \in Flags(message', r)
        /\ (dsnOut'.op = "no_dsn") <=>
                (dsnOut'.txt.success = << >> /\ dsnOut'.txt.delay = << >>
                    /\ dsnOut'.txt.failed = << >>)]_vars

\* C39 witness: build_dsn returned None for a message whose first recipient
\* failed for good without having asked for failure notices, and marked it.
MarkedWithoutLineWitness ==
    /\ dsnOut.op = "no_dsn"
    /\ message.recipients[1].status = "PermanentFailure"
    /\ Flags(message, 1) = {RCPT_DSN_SENT, RCPT_STATUS_CHANGED}
    /\ dsnOut.lines[1] = NoLine

\* ---------------------------------------------------------------------------
\* Claims about the Sieve query plugin (specification SpecQuery)
\* ---------------------------------------------------------------------------

IsSpace(ch) == ch \in {" ", "\n"}
\* The first token of a query string: what stands between the leading white
\* space and the next white space.
RECURSIVE SkipSpace(_)
SkipSpace(str) == IF str # << >> /\ IsSpace(str[1]) THEN SkipSpace(Tail(str)) ELSE str
RECURSIVE TakeWord(_)
TakeWord(str) ==
    IF str = << >> \/ IsSpace(str[1]) THEN << >> ELSE <<str[1]>> \o TakeWord(Tail(str))
FirstToken(query) == TakeWord(SkipSpace(query))

\* C35: the plugin runs a query as a row-returning query exactly when the
\* first token of the query string is SELECT in any case, and every other
\* non-empty query as a lookup with a boolean result; an unknown directory
\* or an empty query string gives false and no directory is contacted.
SelectByFirstToken ==
    queryOut.op = "exec" =>
        IF queryOut.directory \notin SieveDirectories \/ queryOut.query = << >>
        THEN queryOut.out = [called |-> "none", result |-> BoolVariable(FALSE)]
        ELSE /\ (queryOut.out.called = "query")
                    <=> eq_ignore_ascii_case(FirstToken(queryOut.query), Select)
             /\ queryOut.out.called # "query" =>
                    /\ queryOut.out.called = "lookup"
                    /\ queryOut.out.result.kind = "bool"

\* ---------------------------------------------------------------------------
\* A further claim about the change log (specification SpecChanges)
\* ---------------------------------------------------------------------------

\* Task t is inside commit_changes before the step and has left it after.
CommitReturns(t) == builders[t].pc \in {"open", "committing"} /\ builders'[t] = NoBuilder

\* C36: commit_changes returns the change id under which the record is
\* written, having taken a fresh id from the store when the builder carried
\* the placeholder u64::MAX; when the id assignment or the write fails it
\* returns ServerPartialFail, no state token, and no record is written.
CommitReturnsWrittenId ==
    [][\A t \in Tasks :
        LET a == builders[t].account IN
        /\ CommitReturns(t) =>
            IF chResult'[t].status = "ok"
            THEN /\ log'[a] = Append(log[a], chResult'[t].state)
                 /\ chResult'[t].state = builders[t].change_id
                 /\ chResult'[t].state # U64_MAX
                 /\ chResult'[t].state \in 1..counter[a]
                 /\ \A b \in ChAccounts \ {a} : log'[b] = log[b]
            ELSE /\ chResult'[t] = ChErr
                 /\ log' = log
                 /\ returned' = returned
        /\ (builders[t].pc = "open" /\ builders'[t].pc = "committing") =>
            /\ builders[t].change_id = U64_MAX
            /\ builders'[t].change_id = counter[a] + 1
            /\ counter'[a] = counter[a] + 1
            /\ log' = log /\ returned' = returned /\ chResult' = chResult]_vars

\* C36 witness: task 1 got id 2 back as the state of the record it wrote;
\* the commit of task 2 failed and wrote nothing (id 1, handed out before, is
\* in no record).
CommitPlaceholderWitness ==
    /\ chResult[1] = ChOk(2)
    /\ chResult[2] = ChErr
    /\ log[1] = <<2>>
    /\ counter[1] = 2
    /\ \A t \in Tasks : builders[t] = NoBuilder

\* ---------------------------------------------------------------------------
\* Claims about body parts (specification SpecBody)
\* ---------------------------------------------------------------------------

\* The values of all parts of a converted body structure (it is at most
\* three levels deep).
AllPartValues(result) ==
    {result}
        \cup {result.subParts[i] : i \in DOMAIN result.subParts}
        \cup UNION {{result.subParts[i].subParts[j] : j \in DOMAIN result.subParts[i].subParts} :
                        i \in DOMAIN result.subParts}
ValueFor(v, property) ==
    LET i == CHOOSE k \in DOMAIN v.values : v.values[k].property = property
    IN v.values[i].value
HasValue(v, property) == \E k \in DOMAIN v.values : v.values[k].property = property

\* C37: every section BlobId to_body_part gives a part that is not multipart
\* has start_offset <= end_offset <= size of the underlying blob; its offsets
\* are the body offsets of the part plus the start offset of the BlobId of
\* the message, so that it lies inside the section of that BlobId when that
\* has one; the blobId, partId and size of a multipart part are null.
SectionInsideBlob ==
    bodyOut.op = "to_body_part" =>
        \A v \in AllPartValues(bodyOut.result) :
            LET part == bodyOut.self[v.part_id + 1]
                base == IF bodyOut.blob_id.section.some
                        THEN bodyOut.blob_id.section.start_offset ELSE 0
            IN IF part.multipart
               THEN \A k \in DOMAIN v.values :
                        v.values[k].property \in {"blobId", "partId", "size"}
                            => v.values[k].value = Null
               ELSE HasValue(v, "blobId") =>
                        LET id == ValueFor(v, "blobId") IN
                        /\ id.kind = "blobId"
                        /\ id.blobId.kind = bodyOut.blob_id.kind
                        /\ id.blobId.section.some
                        /\ id.blobId.section.start_offset <= id.blobId.section.end_offset
                        /\ id.blobId.section.end_offset <= bodyOut.size
                        /\ id.blobId.section.start_offset = part.offset_body + base
                        /\ id.blobId.section.end_offset = part.offset_end + base
                        /\ bodyOut.blob_id.section.some =>
                            /\ bodyOut.blob_id.section.start_offset
                                    <= id.blobId.section.start_offset
                            /\ id.blobId.section.end_offset
                                    <= bodyOut.blob_id.section.end_offset

\* C37 witness: the message is itself a section that starts past the start
\* of the blob; a part below a multipart got a section, the multipart none.
NestedSectionWitness ==
    /\ bodyOut.op = "to_body_part"
    /\ bodyOut.blob_id.section.some
    /\ bodyOut.blob_id.section.start_offset > 0
    /\ Len(bodyOut.self) = 2
    /\ HasValue(bodyOut.result, "blobId")
    /\ ValueFor(bodyOut.result, "blobId") = Null
    /\ Len(bodyOut.result.subParts) = 1
    /\ ValueFor(bodyOut.result.subParts[1], "blobId").blobId.section.start_offset
            > bodyOut.self[2].offset_body
    /\ ValueFor(bodyOut.result.subParts[1], "blobId").blobId.section.end_offset
            > ValueFor(bodyOut.result.subParts[1], "blobId").blobId.section.start_offset

\* C40: for a text or HTML part and max_len > 0, truncate returns a string
\* without CR of at most max_len bytes that, a trailing "..." apart, is a
\* prefix of the content without its CRs; it is that whole content, with
\* the flag false, whenever that fits in max_len bytes; the flag is true
\* exactly when content was cut; with max_len = 0 the whole content without
\* CRs is returned and the flag is false.
TruncateKeepsPrefix ==
    bodyOut.op = "truncate" =>
        LET stripped == replace_cr(bodyOut.content)
            text == bodyOut.result.text
            n == Len(text)
        IN IF bodyOut.max_len = 0
           THEN text = stripped /\ ~bodyOut.result.truncated
           ELSE /\ \A i \in DOMAIN text : text[i] # "\r"
                /\ str_len(text) <= bodyOut.max_len
                /\ \/ IsPrefix(text, stripped)
                   \/ /\ n >= 3 /\ SubSeq(text, n - 2, n) = Dots
                      /\ IsPrefix(SubSeq(text, 1, n - 3), stripped)
                /\ str_len(stripped) <= bodyOut.max_len =>
                        text = stripped /\ ~bodyOut.result.truncated
                /\ bodyOut.result.truncated <=> text # stripped

============================================================================
